---- MODULE Spec2Model ----
(***************************************************************************)
(* astronote: the SuperMemo-2 scheduler (astronote-core/src/schedulers)    *)
(* and the note stores (astronote-core/src/db), as state machines.         *)
(*                                                                         *)
(* Numbers.  easiness_factor is an f64.  An f64 value v is kept exactly,   *)
(* as <<s, hi, lo>> with s in {1, -1} and |v| = (hi * 2^30 + lo) * 2^-56:  *)
(* every f64 the scheduler computes between 2^-4 and 2^4 is a whole        *)
(* number of 2^-56 units.  F64Round rounds to 53 significant bits, ties to *)
(* even, as IEEE-754 addition and multiplication do.  counter and interval *)
(* are i64; the model stops before they leave 0 .. 2^30.                   *)
(*                                                                         *)
(* Time.  A NaiveDateTime is [day, tod]: a day number and a time of day.   *)
(***************************************************************************)
EXTENDS Integers, Sequences, FiniteSets, TLC

VARIABLES
    sm2,        \* the SuperMemo2 value: [counter, interval, easiness_factor]
    origin,     \* how sm2 was constructed: "default" or "new"
    calls,      \* number of advance calls made on sm2
    seen,       \* the responses given so far: {}, one response, or Responses
    op,         \* the last operation: [name, q, now]
    pre,        \* sm2 before the last operation
    ret,        \* what the last operation returned: [kind, dt]
    panicked,   \* TRUE once an unwrap() has aborted the thread
    backend,    \* the NoteRepository in use: "sqlite", "ron" or "none"
    rows,       \* sqlite: the rows of table notes
    seq,        \* sqlite: the largest id AUTOINCREMENT has given out
    files,      \* ron: the metadata files under database_dir
    sop,        \* the last store operation: [name, notes, path, size, now]
    sres,       \* its result: [kind, notes]
    rres,       \* the file backend's result when both backends are driven
    spre,       \* rows or files before it
    nops,       \* number of create, update and delete calls made
    reader,     \* ron: a LimitReader inside read_to_string
    config,     \* cli: the configuration being built by Config::try_new
    prompt      \* cli: the quality argument or prompt of the command running

sm2vars == <<sm2, origin, calls, seen, op, pre, ret, panicked>>
storevars == <<backend, rows, seq, files, sop, sres, rres, spre, nops>>
vars == <<sm2vars, storevars, reader, config, prompt>>

-----------------------------------------------------------------------------
(* Bounds of the exploration *)

\* advance calls with arbitrary responses on a default-constructed scheduler
MaxReviews == 7
\* advance calls on a scheduler constructed with SuperMemo2::new
MaxProbe == 2
\* advance calls when the same response is given every time
MaxStreak == 18
\* create, update and delete calls on a store
MaxOps == 3

-----------------------------------------------------------------------------
(* f64 *)

Lim == 2^30
B15 == 2^15

RECURSIVE BitLen(_)
BitLen(n) == IF n = 0 THEN 0 ELSE 1 + BitLen(n \div 2)

Pow2(k) == 2^k

\* magnitude <<hi, lo>> comparison
MagLT(a, b) == a[1] < b[1] \/ (a[1] = b[1] /\ a[2] < b[2])
MagLE(a, b) == a = b \/ MagLT(a, b)

\* exact sum and difference (a >= b) of two magnitudes
MagAdd(a, b) ==
    LET lo == a[2] + b[2]
    IN  <<a[1] + b[1] + (lo \div Lim), lo % Lim>>

MagSub(a, b) ==
    LET lo == a[2] - b[2]
    IN  IF lo >= 0 THEN <<a[1] - b[1], lo>> ELSE <<a[1] - b[1] - 1, lo + Lim>>

\* round a magnitude to 53 significant bits, ties to even
F64Round(m) ==
    LET nb == IF m[1] > 0 THEN 30 + BitLen(m[1]) ELSE BitLen(m[2])
    IN  IF nb <= 53 THEN m
        ELSE LET g    == Pow2(nb - 53)
                 r    == m[2] % g
                 down == m[2] - r
                 up   == r > g \div 2 \/ (r = g \div 2 /\ (m[2] \div g) % 2 = 1)
                 lo   == IF up THEN down + g ELSE down
             IN  IF lo = Lim THEN <<m[1] + 1, 0>> ELSE <<m[1], lo>>

F64(s, hi, lo) == <<s, hi, lo>>
Mag(x) == <<x[2], x[3]>>
IsZero(x) == x[2] = 0 /\ x[3] = 0

\* a + b on f64
F64Add(a, b) ==
    IF a[1] = b[1]
    THEN LET m == F64Round(MagAdd(Mag(a), Mag(b))) IN <<a[1], m[1], m[2]>>
    ELSE IF MagLE(Mag(b), Mag(a))
         THEN LET m == F64Round(MagSub(Mag(a), Mag(b)))
              IN  IF m = <<0, 0>> THEN <<1, 0, 0>> ELSE <<a[1], m[1], m[2]>>
         ELSE LET m == F64Round(MagSub(Mag(b), Mag(a))) IN <<b[1], m[1], m[2]>>

\* a < b on f64
F64LT(a, b) ==
    IF IsZero(a) /\ IsZero(b) THEN FALSE
    ELSE IF a[1] # b[1] THEN a[1] < b[1]
    ELSE IF a[1] = 1 THEN MagLT(Mag(a), Mag(b))
    ELSE MagLT(Mag(b), Mag(a))

F64LE(a, b) == ~F64LT(b, a)

\* f64::max
F64Max(a, b) == IF F64LT(a, b) THEN b ELSE a

\* (i as f64 * x).ceil() as i64, for 0 <= i < 2^30 and x >= 0:
\* the exact product is P = i * (hi * 2^30 + lo) units; with N = P div 2^56
\* and frac = P mod 2^56, the f64 product is N when frac is at most half the
\* gap between N and the next f64 (a tie goes to N, whose mantissa is even),
\* and lies in (N, N + 1] otherwise.
CeilMul(i, x) ==
    LET i0 == i % B15
        i1 == i \div B15
        m0 == x[3] % B15
        m1 == x[3] \div B15
        m2 == x[2] % B15
        m3 == x[2] \div B15
        t0 == i0 * m0
        t1 == i0 * m1 + i1 * m0 + (t0 \div B15)
        t2 == i0 * m2 + i1 * m1 + (t1 \div B15)
        t3 == i0 * m3 + i1 * m2 + (t2 \div B15)
        t4 == i1 * m3 + (t3 \div B15)
        d3 == t3 % B15
        n  == (d3 \div Pow2(11)) + (t4 % B15) * Pow2(4) + (t4 \div B15) * Pow2(19)
        frac == <<(t2 % B15) + (d3 % Pow2(11)) * B15, (t0 % B15) + (t1 % B15) * B15>>
        e  == BitLen(n) - 1
        half == IF e + 3 < 30 THEN <<0, Pow2(e + 3)>> ELSE <<Pow2(e + 3 - 30), 0>>
    IN  IF frac = <<0, 0>> THEN n
        ELSE IF n = 0 THEN 1
        ELSE IF MagLE(frac, half) THEN n
        ELSE n + 1

\* f64 literals of the sources
F64_0_0 == F64(1, 0, 0)
F64_0_5 == F64(1, 33554432, 0)
F64_1_0 == F64(1, 67108864, 0)
F64_1_3 == F64(1, 87241523, 214748368)
F64_1_5 == F64(1, 100663296, 0)
F64_2_5 == F64(1, 167772160, 0)
F64_2_6 == F64(1, 174483046, 429496736)
F64_3_0 == F64(1, 201326592, 0)
\* 3.700000000000001, the easiness factor after fourteen responses of 5
F64_3_7 == F64(1, 248302796, 858993536)

\* the f64 value of 0.1 - (5.0 - q)*(0.08 + (5.0 - q)*0.02) for q = 0 .. 5:
\* -0.7999999999999999, -0.54, -0.32000000000000006, -0.13999999999999999,
\* 0.0, 0.1
EfDelta(q) ==
    CASE q = 0 -> F64(-1, 53687091, 214748360)
      [] q = 1 -> F64(-1, 36238786, 601295424)
      [] q = 2 -> F64(-1, 21474836, 515396080)
      [] q = 3 -> F64(-1, 9395240, 1030792150)
      [] q = 4 -> F64(1, 0, 0)
      [] q = 5 -> F64(1, 6710886, 429496730)

Min(a, b) == IF a < b THEN a ELSE b

-----------------------------------------------------------------------------
(* schedulers/sm2.rs *)

INTERVAL_1ST_REPETITION == 1
INTERVAL_2ND_REPETITION == 6

SuperMemo2(counter, interval, easiness_factor) ==
    [counter |-> counter, interval |-> interval, easiness_factor |-> easiness_factor]

\* a default that starts the counter below zero
Default_negative == SuperMemo2(-1, 0, F64_2_5)

Default == SuperMemo2(0, 0, F64_2_5)

\* the arm of match self.counter (and of match counter in
\* calculate_interval) that a value of the incremented counter selects
Arm(counter) ==
    CASE counter = 0 -> "unreachable"
      [] counter = 1 -> "first"
      [] counter = 2 -> "second"
      [] counter >= 3 -> "later"
      [] OTHER -> "unreachable"

\* the calls update_repetition_interval and calculate_interval make to
\* themselves when called with the committed counter counter0
RECURSIVE Depth(_, _)
Depth(counter0, repetition_response) ==
    IF counter0 + 1 >= 3 /\ repetition_response < 3
    THEN 1 + Depth(0, repetition_response)
    ELSE 0

\* the arms selected in those calls
RECURSIVE Arms(_, _)
Arms(counter0, repetition_response) ==
    {Arm(counter0 + 1)}
        \cup (IF counter0 + 1 >= 3 /\ repetition_response < 3
              THEN Arms(0, repetition_response) ELSE {})

\* update_easiness_factor without the floor of line 45
update_easiness_factor_unfloored(ef, repetition_response) ==
    LET q == Min(repetition_response, 5)
    IN  F64Add(ef, EfDelta(q))

\* update_easiness_factor without the min(5) of line 43: a response of 6
\* adds 0.1 - (-1.0)*(0.08 + (-1.0)*0.02) = 0.16
update_easiness_factor_unclamped(ef, repetition_response) ==
    IF repetition_response <= 5
    THEN F64Max(F64Add(ef, EfDelta(repetition_response)), F64_1_3)
    ELSE F64Max(F64Add(ef, F64(1, 10737418, 257698038)), F64_1_3)

\* update_easiness_factor with max(1.0) in place of max(1.3)
update_easiness_factor_floor1(ef, repetition_response) ==
    F64Max(F64Add(ef, EfDelta(Min(repetition_response, 5))), F64_1_0)

\* update_easiness_factor: the new easiness factor
update_easiness_factor(ef, repetition_response) ==
    LET q == Min(repetition_response, 5)
    IN  F64Max(F64Add(ef, EfDelta(q)), F64_1_3)

\* update_repetition_interval with one of its parts changed:
\*   "basis"  the counter, not the previous interval, is multiplied
\*   "lapse"  no lapse branch: a response below 3 updates like any other
\*   "first"  no arm for the first repetition
\*   "second" no arm for the second repetition
\*   "zero"   a lapse does not recurse: it leaves counter 0
update_repetition_interval_variant(s, repetition_response, change) ==
    LET counter == s.counter + 1
        ef == update_easiness_factor(s.easiness_factor, repetition_response)
    IN  CASE counter = 1 /\ change # "first" ->
               [s EXCEPT !.counter = counter, !.interval = INTERVAL_1ST_REPETITION]
          [] counter = 2 /\ change # "second" ->
               [s EXCEPT !.counter = counter, !.interval = INTERVAL_2ND_REPETITION]
          [] counter >= 3 /\ repetition_response < 3 /\ change # "lapse" ->
               [s EXCEPT !.counter = IF change = "zero" THEN 0 ELSE 1,
                         !.interval = INTERVAL_1ST_REPETITION]
          [] OTHER ->
               [counter |-> counter,
                interval |-> IF change = "basis" THEN CeilMul(counter, ef)
                                                 ELSE CeilMul(s.interval, ef),
                easiness_factor |-> ef]

update_repetition_interval_basis(s, repetition_response) ==
    update_repetition_interval_variant(s, repetition_response, "basis")
update_repetition_interval_nolapse(s, repetition_response) ==
    update_repetition_interval_variant(s, repetition_response, "lapse")
update_repetition_interval_nofirst(s, repetition_response) ==
    update_repetition_interval_variant(s, repetition_response, "first")
update_repetition_interval_nosecond(s, repetition_response) ==
    update_repetition_interval_variant(s, repetition_response, "second")
update_repetition_interval_zero(s, repetition_response) ==
    update_repetition_interval_variant(s, repetition_response, "zero")

\* update_repetition_interval: the scheduler after the call
RECURSIVE update_repetition_interval(_, _)
update_repetition_interval(s, repetition_response) ==
    LET counter == s.counter + 1
    IN  CASE counter = 1 ->
               [s EXCEPT !.counter = counter, !.interval = INTERVAL_1ST_REPETITION]
          [] counter = 2 ->
               [s EXCEPT !.counter = counter, !.interval = INTERVAL_2ND_REPETITION]
          [] counter >= 3 ->
               IF repetition_response < 3
               THEN update_repetition_interval([s EXCEPT !.counter = 0],
                                               repetition_response)
               ELSE LET ef == update_easiness_factor(s.easiness_factor,
                                                     repetition_response)
                    IN  [counter |-> counter,
                         interval |-> CeilMul(s.interval, ef),
                         easiness_factor |-> ef]

\* calculate_interval
RECURSIVE calculate_interval(_, _, _)
calculate_interval(counter0, easiness_factor, repetition_response) ==
    LET counter == counter0 + 1
    IN  CASE counter = 1 -> INTERVAL_1ST_REPETITION
          [] counter = 2 -> INTERVAL_2ND_REPETITION
          [] counter >= 3 ->
               IF repetition_response < 3
               THEN calculate_interval(0, easiness_factor, repetition_response)
               ELSE CeilMul(counter, easiness_factor)

\* chrono: the last day a NaiveDateTime can hold, 262142-12-31, as a day
\* number counted from 1970-01-01
MaxDay == 95026236

DateTime(day, tod) == [day |-> day, tod |-> tod]

\* checked_add_days that gives midnight of the day
checked_add_days_midnight(now, days) ==
    IF now.day + days > MaxDay
    THEN [kind |-> "None", dt |-> now]
    ELSE [kind |-> "Some", dt |-> DateTime(now.day + days, 0)]

\* NaiveDateTime::checked_add_days: Some(datetime), or None past MaxDay
checked_add_days(now, days) ==
    IF now.day + days > MaxDay
    THEN [kind |-> "None", dt |-> now]
    ELSE [kind |-> "Some", dt |-> DateTime(now.day + days, now.tod)]

\* Option::unwrap on the result: the datetime, or a panic
unwrap(r) == IF r.kind = "Some" THEN [kind |-> "Ok", dt |-> r.dt]
                                ELSE [kind |-> "Panic", dt |-> r.dt]

\* the u8 responses tried, and the readings of chrono::Local::now()
Responses == {0, 1, 2, 3, 4, 5, 6, 7, 255}
Clock == {DateTime(20758, 0), DateTime(20758, 1)}

\* schedulers built by the tests with SuperMemo2 { .. } / SuperMemo2::new
Constructed ==
    {SuperMemo2(1, 0, F64_2_5), SuperMemo2(0, 9, F64_1_5)} \cup
    {SuperMemo2(3, 6, ef) :
        ef \in {F64_0_0, F64_0_5, F64_1_0, F64_1_3, F64_1_5, F64_2_5, F64_3_0}}

NoCall == [name |-> "none", q |-> 0, now |-> DateTime(0, 0)]
NoRet == [kind |-> "None", dt |-> DateTime(0, 0)]
NoStoreCall ==
    [name |-> "none", notes |-> <<>>, path |-> <<>>, size |-> 0,
     now |-> DateTime(0, 0)]
\* Config::try_new not called
NoConfig == [state |-> "none"]
\* no quality asked for or given
NoPrompt == [state |-> "none"]
\* no LimitReader made yet
NoReader == [state |-> "none", size |-> 0, pos |-> 0, limit |-> 0]
StoreIdle ==
    /\ backend = "none" /\ rows = {} /\ seq = 0 /\ files = {}
    /\ sop = NoStoreCall /\ sres = [kind |-> "Ok", notes |-> <<>>]
    /\ rres = [kind |-> "Ok", notes |-> <<>>]
    /\ spre = {} /\ nops = 0
    /\ reader = NoReader /\ config = NoConfig /\ prompt = NoPrompt

InitSm2 ==
    /\ \/ sm2 = Default /\ origin = "default"
       \/ sm2 \in Constructed /\ origin = "new"
    /\ calls = 0
    /\ seen = {}
    /\ op = NoCall
    /\ pre = sm2
    /\ ret = NoRet
    /\ panicked = FALSE
    /\ StoreIdle

\* how far a run is followed
MayAdvance(q) ==
    IF origin = "default"
    THEN calls < MaxReviews \/ (seen \subseteq {q} /\ calls < MaxStreak)
    ELSE calls < MaxProbe

\* SchedulingAlgorithm::update_and_calculate_next_datetime
Advance(response, now) ==
    /\ ~panicked
    /\ MayAdvance(response)
    /\ LET next == update_repetition_interval(sm2, Min(response, 6))
           r    == unwrap(checked_add_days(now, next.interval))
       IN  /\ sm2' = next
           /\ ret' = r
           /\ panicked' = (r.kind = "Panic")
    /\ pre' = sm2
    /\ op' = [name |-> "advance", q |-> response, now |-> now]
    /\ calls' = calls + 1
    /\ seen' = (IF seen \subseteq {response} THEN {response} ELSE Responses)
    /\ UNCHANGED <<origin, storevars, reader, config, prompt>>

\* SchedulingAlgorithm::calculate_next_datetime
Preview(response, now) ==
    /\ ~panicked
    /\ LET interval == calculate_interval(sm2.counter, sm2.easiness_factor,
                                          Min(response, 6))
           r        == unwrap(checked_add_days(now, interval))
       IN  /\ ret' = r
           /\ panicked' = (r.kind = "Panic")
    /\ pre' = sm2
    /\ op' = [name |-> "preview", q |-> response, now |-> now]
    /\ UNCHANGED <<sm2, origin, calls, seen, storevars, reader, config, prompt>>

NextSm2 ==
    \/ \E q \in Responses, now \in Clock : Advance(q, now)
    \/ \E q \in Responses, now \in Clock : Preview(q, now)

Spec == InitSm2 /\ [][NextSm2]_vars

-----------------------------------------------------------------------------
(* The scheduler's claims, checked under Spec *)

Advanced == op.name = "advance"
\* the response after the clamp of update_and_calculate_next_datetime
Quality == Min(op.q, 6)

\* C1: from the default state, after any sequence of advance calls with any
\* responses, easiness_factor is at least 1.3.
C1_EasinessFloor ==
    origin = "default" => F64LE(F64_1_3, sm2.easiness_factor)

\* an advance from the default state in which the floor decided the result
C1_Witness ==
    /\ origin = "default" /\ Advanced /\ Quality >= 3 /\ pre.counter >= 2
    /\ F64LT(F64Add(pre.easiness_factor, EfDelta(Min(op.q, 5))), F64_1_3)
    /\ sm2.easiness_factor = F64_1_3

\* C2: in every state reached from the default state and for every quality
\* 0..6, the interval preview adds to now is the interval advance would
\* commit and add to now.
C2_PreviewIsAdvance ==
    origin = "default" =>
        \A q \in 0 .. 6 :
            calculate_interval(sm2.counter, sm2.easiness_factor, q)
                = update_repetition_interval(sm2, q).interval

\* the rows of tests::test_3rd_repetition for q = 3, 4, 5, one column per
\* easiness factor 0.0, 0.5, 1.0, 1.3, 1.5, 2.5, 3.0
ThirdRepetitionEf ==
    <<F64_0_0, F64_0_5, F64_1_0, F64_1_3, F64_1_5, F64_2_5, F64_3_0>>
ThirdRepetitionExpected ==
    [q \in 3 .. 5 |->
        IF q = 5 THEN <<8, 8, 8, 9, 10, 16, 19>> ELSE <<8, 8, 8, 8, 9, 15, 18>>]

\* C3: an advance with quality >= 3 at working counter >= 3 sets
\* ef' = max(1.3, ef + 0.1 - (5-min(q,5))*(0.08 + (5-min(q,5))*0.02)),
\* interval' = ceil(previous interval * ef') and counter' = counter + 1;
\* counter 3, interval 6, ef 2.5, q 4 gives ef 2.5 and interval 15, and the
\* table of test_3rd_repetition holds for q in 3..5.
C3_SuccessfulRepetition ==
    (Advanced /\ Quality >= 3 /\ pre.counter + 1 >= 3) =>
        LET ef1 == F64Max(F64Add(pre.easiness_factor, EfDelta(Min(op.q, 5))),
                          F64_1_3)
        IN  /\ sm2.easiness_factor = ef1
            /\ sm2.interval = CeilMul(pre.interval, ef1)
            /\ sm2.counter = pre.counter + 1
            /\ \A j \in 1 .. 7 :
                   (pre = SuperMemo2(3, 6, ThirdRepetitionEf[j]) /\ op.q \in 3 .. 5)
                       => sm2.interval = ThirdRepetitionExpected[op.q][j]
            /\ (pre = SuperMemo2(3, 6, F64_2_5) /\ op.q = 4)
                   => sm2 = SuperMemo2(4, 15, F64_2_5)

C3_Witness ==
    /\ Advanced /\ op.q = 4 /\ pre = SuperMemo2(3, 6, F64_2_5)
    /\ sm2 = SuperMemo2(4, 15, F64_2_5)

\* C4: an advance with quality 0..2 at working counter >= 3 commits
\* interval 1, whatever the previous interval and easiness factor.
C4_Lapse ==
    (Advanced /\ Quality < 3 /\ pre.counter + 1 >= 3) => sm2.interval = 1

C4_Witness ==
    /\ Advanced /\ Quality < 3 /\ pre.counter + 1 >= 3
    /\ pre.interval > 6 /\ pre.easiness_factor # F64_2_5
    /\ sm2.interval = 1

\* C5: an advance on a state with committed counter 0 commits interval 1
\* and counter 1, for every response and every easiness factor.
C5_FirstRepetition ==
    (Advanced /\ pre.counter = 0) => (sm2.interval = 1 /\ sm2.counter = 1)

C5_Witness ==
    /\ Advanced /\ pre.counter = 0 /\ op.q = 255
    /\ pre.easiness_factor # F64_2_5 /\ sm2.interval = 1

\* C6: an advance on a state with committed counter 1 commits interval 6
\* and counter 2 and leaves the easiness factor as it was, for every
\* response, stored interval and easiness factor.
C6_SecondRepetition ==
    (Advanced /\ pre.counter = 1) =>
        /\ sm2.interval = 6
        /\ sm2.counter = 2
        /\ sm2.easiness_factor = pre.easiness_factor

C6_Witness ==
    /\ Advanced /\ pre.counter = 1 /\ Quality < 3
    /\ pre.interval = 1 /\ pre.easiness_factor # F64_2_5
    /\ sm2.interval = 6

\* C7: when now + interval days is past the last representable date,
\* advance and preview return an ArithmeticOverflow failure and do not panic.
C7_OverflowIsReturned ==
    LET days == IF Advanced THEN sm2.interval
                ELSE calculate_interval(sm2.counter, sm2.easiness_factor, Quality)
    IN  (op.name \in {"advance", "preview"} /\ op.now.day + days > MaxDay) =>
            (ret.kind = "ArithmeticOverflow" /\ ~panicked)

-----------------------------------------------------------------------------
(* lib.rs: Note and SerializedNote *)

\* a path is the sequence of its characters
StorePaths ==
    {<<"a", ".", "m", "d">>, <<"a", ".", "t", "x", "t">>, <<"b", ".", "m", "d">>}

Note(id, absolute_path, next_datetime, scheduler) ==
    [id |-> id, absolute_path |-> absolute_path,
     next_datetime |-> next_datetime, scheduler |-> scheduler]

\* serde_json::to_value(scheduler): the typetag value
\* {"type": "SuperMemo2", "counter": .., "interval": .., "easiness_factor": ..}
to_value(scheduler) ==
    [type |-> "SuperMemo2", counter |-> scheduler.counter,
     interval |-> scheduler.interval,
     easiness_factor |-> scheduler.easiness_factor]

\* serde_json::from_value: the scheduler the value names
from_value(value) ==
    IF value.type = "SuperMemo2"
    THEN [kind |-> "Ok",
          scheduler |-> SuperMemo2(value.counter, value.interval,
                                   value.easiness_factor)]
    ELSE [kind |-> "Err", scheduler |-> Default]

\* TryFrom<Note> for SerializedNote
SerializedNote(note) == [note EXCEPT !.scheduler = to_value(note.scheduler)]

\* TryInto<Note> for SerializedNote: the note (read only when from_value is Ok)
IntoNote(item) == [item EXCEPT !.scheduler = from_value(item.scheduler).scheduler]

\* the notes handed to the stores: a due date and scheduler as left by a
\* review, or those of a note just added
StoreContents ==
    {[next_datetime |-> DateTime(20757, 0), scheduler |-> SuperMemo2(3, 16, F64_2_6)],
     [next_datetime |-> DateTime(20759, 0), scheduler |-> Default],
     [next_datetime |-> DateTime(5631997, 0),
      scheduler |-> SuperMemo2(14, 5611239, F64_3_7)]}
StoreIds == 0 .. 2
StoreNotes ==
    {Note(id, path, c.next_datetime, c.scheduler) :
        id \in StoreIds, path \in StorePaths, c \in StoreContents}
\* the time a query is issued
StoreClock == {DateTime(20758, 0)}

\* a <= b on NaiveDateTime
DtLE(a, b) == a.day < b.day \/ (a.day = b.day /\ a.tod <= b.tod)

\* the proleptic Gregorian year, month and day of month of a day number
\* (days since 1970-01-01), as chrono's NaiveDate gives them
Ymd(day) ==
    LET z   == day + 719468
        era == z \div 146097
        doe == z % 146097
        yoe == (doe - doe \div 1460 + doe \div 36524 - doe \div 146096) \div 365
        doy == doe - (365 * yoe + yoe \div 4 - yoe \div 100)
        mp  == (5 * doy + 2) \div 153
        m   == IF mp < 10 THEN mp + 3 ELSE mp - 9
    IN  [year |-> yoe + era * 400 + (IF m <= 2 THEN 1 ELSE 0), month |-> m,
         day |-> doy - (153 * mp + 2) \div 5 + 1]

\* the ASCII codes of n in decimal, zero-padded to width
RECURSIVE Decimal(_, _)
Decimal(n, width) ==
    IF n < 10 /\ width <= 1 THEN <<48 + n>>
    ELSE Decimal(n \div 10, width - 1) \o <<48 + (n % 10)>>

\* the TEXT a NaiveDateTime is bound as: sqlx writes format("%F %T%.f"),
\* and chrono writes a year past 9999 with a leading '+'.  Times of day
\* here are whole seconds, which %.f leaves out.
DateText(dt) ==
    LET d == Ymd(dt.day)
    IN  (IF d.year > 9999 THEN <<43>> ELSE <<>>)
            \o Decimal(d.year, 4) \o <<45>> \o Decimal(d.month, 2)
            \o <<45>> \o Decimal(d.day, 2) \o <<32>>
            \o Decimal(0, 2) \o <<58>> \o Decimal(0, 2) \o <<58>>
            \o Decimal(dt.tod, 2)

\* s <= t in sqlite's BINARY collation (memcmp, the shorter of equal
\* prefixes first)
TextLE(s, t) ==
    \/ \E i \in 1 .. Min(Len(s), Len(t)) :
          s[i] < t[i] /\ \A j \in 1 .. (i - 1) : s[j] = t[j]
    \/ Len(s) <= Len(t) /\ \A j \in 1 .. Len(s) : s[j] = t[j]

\* the injective sequences over all of S
Perms(S) ==
    {f \in [1 .. Cardinality(S) -> S] :
        \A i, j \in 1 .. Cardinality(S) : i # j => f[i] # f[j]}

StoreOk(notes) == [kind |-> "Ok", notes |-> notes]
StoreErr(kind) == [kind |-> kind, notes |-> <<>>]

-----------------------------------------------------------------------------
(* db/mod.rs: sqlite::NoteRepository.  Each operator gives the table after *)
(* the statement and the Result returned.                                  *)

\* INSERT OR REPLACE in place of ON CONFLICT(absolute_path) DO NOTHING
sqlite_create_replace(table, last, item) ==
    LET old == {r \in table : r.absolute_path = item.absolute_path}
    IN  [rows |-> (table \ old) \cup {[item EXCEPT !.id = last + 1]},
         seq |-> last + 1, res |-> StoreOk(<<>>)]

\* create: INSERT .. ON CONFLICT(absolute_path) DO NOTHING
sqlite_create(table, last, item) ==
    IF \E r \in table : r.absolute_path = item.absolute_path
    THEN [rows |-> table, seq |-> last, res |-> StoreOk(<<>>)]
    ELSE [rows |-> table \cup {[item EXCEPT !.id = last + 1]},
          seq |-> last + 1, res |-> StoreOk(<<>>)]

\* find_by_path: SELECT * FROM notes WHERE absolute_path = ?, fetch_one
sqlite_find_by_path(table, path) ==
    IF \E r \in table : r.absolute_path = path
    THEN StoreOk(<<CHOOSE r \in table : r.absolute_path = path>>)
    ELSE StoreErr("FailedToFindNoteByPath")

\* find_by_id: SELECT * FROM notes WHERE id = ?, fetch_one
sqlite_find_by_id(table, id) ==
    IF \E r \in table : r.id = id
    THEN StoreOk(<<CHOOSE r \in table : r.id = id>>)
    ELSE StoreErr("FailedToFindNoteById")

\* the UPDATE on a table whose absolute_path is not UNIQUE
sqlite_update_nounique(table, note) ==
    [rows |-> {r \in table : r.id # note.id}
                \cup (IF \E r \in table : r.id = note.id THEN {note} ELSE {}),
     res |-> StoreOk(<<>>)]

\* update: UPDATE notes SET absolute_path, next_datetime, scheduler
\* WHERE id = ?; the UNIQUE constraint on absolute_path fails the statement
sqlite_update(table, note) ==
    IF ~\E r \in table : r.id = note.id
    THEN [rows |-> table, res |-> StoreOk(<<>>)]
    ELSE IF \E r \in table : r.id # note.id /\ r.absolute_path = note.absolute_path
    THEN [rows |-> table, res |-> StoreErr("FailedToUpdateNote")]
    ELSE [rows |-> {r \in table : r.id # note.id} \cup {note},
          res |-> StoreOk(<<>>)]

\* delete: DELETE FROM notes WHERE id = ?
sqlite_delete(table, note) ==
    [rows |-> {r \in table : r.id # note.id}, res |-> StoreOk(<<>>)]

\* get_old_notes: SELECT * FROM notes ORDER BY next_datetime LIMIT ?
\* the results the statement may give: rows with equal next_datetime come
\* in any order.  The column next_datetime is TEXT and is compared as text.
sqlite_get_old_notes(table, size) ==
    {StoreOk(SubSeq(f, 1, Min(size, Cardinality(table)))) :
        f \in {g \in Perms(table) :
                 \A i, j \in 1 .. Cardinality(table) :
                     i < j => TextLE(DateText(g[i].next_datetime),
                                     DateText(g[j].next_datetime))}}

-----------------------------------------------------------------------------
(* db/ron.rs: NoteRepository.  A metadata file is [meta, data, len, total]: *)
(* its path, the SerializedNote last written, the length of that text and   *)
(* the length of the file.                                                  *)

RECURSIVE Digits(_)
Digits(n) == IF n < 10 THEN 1 ELSE 1 + Digits(n \div 10)

\* the characters of an f64 in RON: the shortest decimal that reads back
EfLen(x) ==
    CASE x \in {F64_0_5, F64_1_3, F64_1_5, F64_2_5, F64_2_6} -> 3
      [] x \in {F64_0_0, F64_1_0, F64_3_0} -> 3
      [] x = F64_3_7 -> 17
      [] OTHER -> 18

\* ron::ser::to_string_pretty: the length of the text, counting the
\* characters that differ from note to note (the field names and the
\* punctuation are the same in every file); chrono writes a NaiveDateTime
\* as long as DateText does
RonLen(item) ==
    Digits(item.id) + Len(item.absolute_path)
        + Len(DateText(item.next_datetime)) + Digits(item.scheduler.counter)
        + Digits(item.scheduler.interval) + EfLen(item.scheduler.easiness_factor)

\* the index of the last c in p, 0 when there is none
LastIndex(p, c) ==
    IF \E i \in 1 .. Len(p) : p[i] = c
    THEN CHOOSE i \in 1 .. Len(p) : p[i] = c /\ \A j \in (i + 1) .. Len(p) : p[j] # c
    ELSE 0

\* PathBuf::set_extension: the file name up to its last '.' (a leading '.'
\* does not count), then '.' and the extension
set_extension(p, ext) ==
    LET name == LastIndex(p, "/") + 1
        dot  == LastIndex(p, ".")
        stem == IF dot > name THEN SubSeq(p, 1, dot - 1) ELSE p
    IN  stem \o <<".">> \o ext

\* get_metadata_path_from_path, relative to database_root
get_metadata_path_from_path(path) ==
    set_extension(path, <<"m", "e", "t", "a", "d", "a", "t", "a">>)

get_metadata_path_from_note(note) ==
    get_metadata_path_from_path(note.absolute_path)

\* Path::exists
exists(fs, meta) == \E f \in fs : f.meta = meta
FileAt(fs, meta) == CHOOSE f \in fs : f.meta = meta

\* write_metadata: File::options().read(true).write(true).create(true) opens
\* without truncating, and write_all writes the text from offset 0
write_metadata(fs, note) ==
    LET meta == get_metadata_path_from_note(note)
        item == SerializedNote(note)
        len  == RonLen(item)
        total == IF exists(fs, meta) /\ FileAt(fs, meta).total > len
                 THEN FileAt(fs, meta).total ELSE len
    IN  {f \in fs : f.meta # meta}
            \cup {[meta |-> meta, data |-> item, len |-> len, total |-> total]}

\* create: the notes whose metadata file does not exist are written, in order
RECURSIVE ron_create(_, _)
ron_create(fs, notes) ==
    IF notes = <<>> THEN [files |-> fs, res |-> StoreOk(<<>>)]
    ELSE IF exists(fs, get_metadata_path_from_note(Head(notes)))
    THEN ron_create(fs, Tail(notes))
    ELSE ron_create(write_metadata(fs, Head(notes)), Tail(notes))

\* update: the notes whose metadata file exists are written, in order
RECURSIVE ron_update(_, _)
ron_update(fs, notes) ==
    IF notes = <<>> THEN [files |-> fs, res |-> StoreOk(<<>>)]
    ELSE IF exists(fs, get_metadata_path_from_note(Head(notes)))
    THEN ron_update(write_metadata(fs, Head(notes)), Tail(notes))
    ELSE ron_update(fs, Tail(notes))

\* delete_metadata for each note in order, stopping at the first failure
RECURSIVE ron_delete(_, _)
ron_delete(fs, notes) ==
    IF notes = <<>> THEN [files |-> fs, res |-> StoreOk(<<>>)]
    ELSE LET meta == get_metadata_path_from_note(Head(notes))
         IN  IF ~exists(fs, meta)
             THEN [files |-> fs, res |-> StoreErr("FailedToFindMetadata")]
             ELSE ron_delete({f \in fs : f.meta # meta}, Tail(notes))

\* read_metadata of an existing file: ron::from_str fails on the bytes an
\* earlier, longer text left behind the text last written
read_metadata(f) ==
    IF f.total # f.len THEN StoreErr("FailedToParse")
    ELSE IF from_value(f.data.scheduler).kind # "Ok" THEN StoreErr("FailedToDeserialize")
    ELSE StoreOk(<<IntoNote(f.data)>>)

\* get_one
ron_get_one(fs, path) ==
    LET meta == get_metadata_path_from_path(path)
    IN  IF ~exists(fs, meta) THEN StoreErr("FailedToOpen")
        ELSE read_metadata(FileAt(fs, meta))

\* get_all: read_metadata_from_directory; read_dir lists in any order
ron_get_all(fs) ==
    IF \E f \in fs : read_metadata(f).kind # "Ok"
    THEN {StoreErr("FailedToReadMetadata")}
    ELSE {StoreOk([i \in 1 .. Cardinality(fs) |-> read_metadata(g[i]).notes[1]]) :
            g \in Perms(fs)}

-----------------------------------------------------------------------------
(* The store operations as steps *)

InitStore ==
    /\ sm2 = Default /\ origin = "default" /\ calls = 0 /\ seen = {}
    /\ op = NoCall /\ pre = sm2 /\ ret = NoRet /\ panicked = FALSE
    /\ backend \in {"sqlite", "ron"}
    /\ rows = {} /\ seq = 0 /\ files = {}
    /\ sop = NoStoreCall /\ sres = StoreOk(<<>>) /\ rres = StoreOk(<<>>)
    /\ spre = {} /\ nops = 0 /\ reader = NoReader /\ config = NoConfig /\ prompt = NoPrompt

StoreCall(name, notes, path, size, now) ==
    [name |-> name, notes |-> notes, path |-> path, size |-> size, now |-> now]

\* the Vec<Note> arguments: one note, as added (id 0) or with an id given
\* to it, or two notes just added
Batches ==
    {<<n>> : n \in {x \in StoreNotes : x.id <= 1}}
        \cup {<<n, m>> : n, m \in {x \in StoreNotes : x.id = 0 /\ x.scheduler = Default}}

SqliteCreate(note) ==
    /\ backend = "sqlite" /\ nops < MaxOps
    /\ LET r == sqlite_create(rows, seq, SerializedNote(note))
       IN  rows' = r.rows /\ seq' = r.seq /\ sres' = r.res
    /\ sop' = StoreCall("create", <<note>>, <<>>, 0, DateTime(0, 0))
    /\ spre' = rows /\ nops' = nops + 1
    /\ UNCHANGED <<sm2vars, config, prompt, rres, reader, backend, files>>

SqliteUpdate(note) ==
    /\ backend = "sqlite" /\ nops < MaxOps
    /\ LET r == sqlite_update(rows, SerializedNote(note))
       IN  rows' = r.rows /\ sres' = r.res
    /\ sop' = StoreCall("update", <<note>>, <<>>, 0, DateTime(0, 0))
    /\ spre' = rows /\ nops' = nops + 1
    /\ UNCHANGED <<sm2vars, config, prompt, rres, reader, backend, seq, files>>

SqliteDelete(note) ==
    /\ backend = "sqlite" /\ nops < MaxOps
    /\ LET r == sqlite_delete(rows, SerializedNote(note))
       IN  rows' = r.rows /\ sres' = r.res
    /\ sop' = StoreCall("delete", <<note>>, <<>>, 0, DateTime(0, 0))
    /\ spre' = rows /\ nops' = nops + 1
    /\ UNCHANGED <<sm2vars, config, prompt, rres, reader, backend, seq, files>>

SqliteFindByPath(path) ==
    /\ backend = "sqlite"
    /\ sres' = sqlite_find_by_path(rows, path)
    /\ sop' = StoreCall("find_by_path", <<>>, path, 0, DateTime(0, 0))
    /\ spre' = rows
    /\ UNCHANGED <<sm2vars, config, prompt, rres, reader, backend, rows, seq, files, nops>>

SqliteFindById(id) ==
    /\ backend = "sqlite"
    /\ sres' = sqlite_find_by_id(rows, id)
    /\ sop' = StoreCall("find_by_id", <<>>, <<>>, id, DateTime(0, 0))
    /\ spre' = rows
    /\ UNCHANGED <<sm2vars, config, prompt, rres, reader, backend, rows, seq, files, nops>>

SqliteGetOldNotes(size, now) ==
    /\ backend = "sqlite"
    /\ sres' \in sqlite_get_old_notes(rows, size)
    /\ sop' = StoreCall("get_old_notes", <<>>, <<>>, size, now)
    /\ spre' = rows
    /\ UNCHANGED <<sm2vars, config, prompt, rres, reader, backend, rows, seq, files, nops>>

RonCreate(notes) ==
    /\ backend = "ron" /\ nops < MaxOps
    /\ LET r == ron_create(files, notes)
       IN  files' = r.files /\ sres' = r.res
    /\ sop' = StoreCall("create", notes, <<>>, 0, DateTime(0, 0))
    /\ spre' = files /\ nops' = nops + 1
    /\ UNCHANGED <<sm2vars, config, prompt, rres, reader, backend, rows, seq>>

RonUpdate(notes) ==
    /\ backend = "ron" /\ nops < MaxOps
    /\ LET r == ron_update(files, notes)
       IN  files' = r.files /\ sres' = r.res
    /\ sop' = StoreCall("update", notes, <<>>, 0, DateTime(0, 0))
    /\ spre' = files /\ nops' = nops + 1
    /\ UNCHANGED <<sm2vars, config, prompt, rres, reader, backend, rows, seq>>

RonDelete(notes) ==
    /\ backend = "ron" /\ nops < MaxOps
    /\ LET r == ron_delete(files, notes)
       IN  files' = r.files /\ sres' = r.res
    /\ sop' = StoreCall("delete", notes, <<>>, 0, DateTime(0, 0))
    /\ spre' = files /\ nops' = nops + 1
    /\ UNCHANGED <<sm2vars, config, prompt, rres, reader, backend, rows, seq>>

RonGetOne(path) ==
    /\ backend = "ron"
    /\ sres' = ron_get_one(files, path)
    /\ sop' = StoreCall("get_one", <<>>, path, 0, DateTime(0, 0))
    /\ spre' = files
    /\ UNCHANGED <<sm2vars, config, prompt, rres, reader, backend, rows, seq, files, nops>>

RonGetAll(now) ==
    /\ backend = "ron"
    /\ sres' \in ron_get_all(files)
    /\ sop' = StoreCall("get_all", <<>>, <<>>, Cardinality(files), now)
    /\ spre' = files
    /\ UNCHANGED <<sm2vars, config, prompt, rres, reader, backend, rows, seq, files, nops>>

NextStore ==
    \/ \E n \in StoreNotes : SqliteCreate(n)
    \/ \E n \in StoreNotes : SqliteUpdate(n)
    \/ \E n \in StoreNotes : SqliteDelete(n)
    \/ \E p \in StorePaths : SqliteFindByPath(p)
    \/ \E id \in StoreIds : SqliteFindById(id)
    \/ \E size \in 1 .. 3, now \in StoreClock : SqliteGetOldNotes(size, now)
    \/ \E ns \in Batches : RonCreate(ns)
    \/ \E ns \in Batches : RonUpdate(ns)
    \/ \E ns \in Batches : RonDelete(ns)
    \/ \E p \in StorePaths : RonGetOne(p)
    \/ \E now \in StoreClock : RonGetAll(now)

SpecStore == InitStore /\ [][NextStore]_vars

-----------------------------------------------------------------------------
(* The two NoteRepository implementations side by side: from empty stores, *)
(* each operation is made on both with the same note or path.  sres is the *)
(* result of the sqlite repository and rres that of the ron repository.    *)

InitBoth ==
    /\ sm2 = Default /\ origin = "default" /\ calls = 0 /\ seen = {}
    /\ op = NoCall /\ pre = sm2 /\ ret = NoRet /\ panicked = FALSE
    /\ backend = "both"
    /\ rows = {} /\ seq = 0 /\ files = {}
    /\ sop = NoStoreCall /\ sres = StoreOk(<<>>) /\ rres = StoreOk(<<>>)
    /\ spre = {} /\ nops = 0 /\ reader = NoReader /\ config = NoConfig /\ prompt = NoPrompt

BothCreate(note) ==
    /\ backend = "both" /\ nops < MaxOps
    /\ LET r == sqlite_create(rows, seq, SerializedNote(note))
           f == ron_create(files, <<note>>)
       IN  /\ rows' = r.rows /\ seq' = r.seq /\ sres' = r.res
           /\ files' = f.files /\ rres' = f.res
    /\ sop' = StoreCall("create", <<note>>, <<>>, 0, DateTime(0, 0))
    /\ spre' = rows /\ nops' = nops + 1
    /\ UNCHANGED <<sm2vars, config, prompt, reader, backend>>

BothUpdate(note) ==
    /\ backend = "both" /\ nops < MaxOps
    /\ LET r == sqlite_update(rows, SerializedNote(note))
           f == ron_update(files, <<note>>)
       IN  /\ rows' = r.rows /\ sres' = r.res
           /\ files' = f.files /\ rres' = f.res
    /\ sop' = StoreCall("update", <<note>>, <<>>, 0, DateTime(0, 0))
    /\ spre' = rows /\ nops' = nops + 1
    /\ UNCHANGED <<sm2vars, config, prompt, reader, backend, seq>>

BothDelete(note) ==
    /\ backend = "both" /\ nops < MaxOps
    /\ LET r == sqlite_delete(rows, SerializedNote(note))
           f == ron_delete(files, <<note>>)
       IN  /\ rows' = r.rows /\ sres' = r.res
           /\ files' = f.files /\ rres' = f.res
    /\ sop' = StoreCall("delete", <<note>>, <<>>, 0, DateTime(0, 0))
    /\ spre' = rows /\ nops' = nops + 1
    /\ UNCHANGED <<sm2vars, config, prompt, reader, backend, seq>>

\* find_by_path on the one, get_one on the other
BothFind(path) ==
    /\ backend = "both"
    /\ sres' = sqlite_find_by_path(rows, path)
    /\ rres' = ron_get_one(files, path)
    /\ sop' = StoreCall("find_by_path", <<>>, path, 0, DateTime(0, 0))
    /\ spre' = rows
    /\ UNCHANGED <<sm2vars, config, prompt, reader, backend, rows, seq, files, nops>>

\* get_old_notes on the one, get_all on the other
BothList(size, now) ==
    /\ backend = "both"
    /\ sres' \in sqlite_get_old_notes(rows, size)
    /\ rres' \in ron_get_all(files)
    /\ sop' = StoreCall("get_old_notes", <<>>, <<>>, size, now)
    /\ spre' = rows
    /\ UNCHANGED <<sm2vars, config, prompt, reader, backend, rows, seq, files, nops>>

NextBoth ==
    \/ \E n \in StoreNotes : BothCreate(n)
    \/ \E n \in StoreNotes : BothUpdate(n)
    \/ \E n \in StoreNotes : BothDelete(n)
    \/ \E p \in StorePaths : BothFind(p)
    \/ \E now \in StoreClock : BothList(Cardinality(StorePaths), now)

SpecBoth == InitBoth /\ [][NextBoth]_vars

-----------------------------------------------------------------------------
(* astronote-cli main.rs: the commands Add, Update and Review, each one an  *)
(* invocation of the program on the sqlite repository.  sop is the command  *)
(* [name, notes, path, size, now]: notes are the notes the command made or  *)
(* mutated, as it left them.  sres.kind is "Panic" when the invocation      *)
(* panicked.                                                                *)

\* the number of Add and Review commands followed
MaxCmds == 4

\* readings of chrono::Local::now() in the invocations
CliClock == {DateTime(20758, 0), DateTime(20760, 0)}

\* of the 0 .. 6 that input_quality returns and quality_validator lets
\* through: a lapse, a hesitant answer and the best answer
CliQualities == {0, 4, 6}

\* how far a run is followed: an Update leaves the repository as it was, so
\* the commands after it find what they find without it
Followed == sop.name # "update"

\* the --file arguments of Add: one file, or two files
AddArgs ==
    {<<p>> : p \in StorePaths}
        \cup {pq \in StorePaths \X StorePaths : Len(pq[1]) < Len(pq[2])}

InitCli ==
    /\ sm2 = Default /\ origin = "default" /\ calls = 0 /\ seen = {}
    /\ op = NoCall /\ pre = sm2 /\ ret = NoRet /\ panicked = FALSE
    /\ backend = "cli"
    /\ rows = {} /\ seq = 0 /\ files = {}
    /\ sop = NoStoreCall /\ sres = StoreOk(<<>>) /\ rres = StoreOk(<<>>)
    /\ spre = {} /\ nops = 0 /\ reader = NoReader /\ config = NoConfig /\ prompt = NoPrompt

\* new_default that makes the note due a day after it is made
new_default_tomorrow(absolute_path, now) ==
    Note(0, absolute_path, DateTime(now.day + 1, now.tod), Default)

\* Note::new_default, now being the reading of chrono::Local::now()
new_default(absolute_path, now) == Note(0, absolute_path, now, Default)

\* Add: Note::new_default and repo.create for each file, in order
RECURSIVE AddLoop(_, _, _, _)
RECURSIVE AddCreated(_, _, _, _)
AddLoop(table, last, paths, now) ==
    IF paths = <<>> THEN [rows |-> table, seq |-> last, notes |-> <<>>]
    ELSE AddCreated(sqlite_create(table, last,
                                  SerializedNote(new_default(Head(paths), now))),
                    new_default(Head(paths), now), Tail(paths), now)

AddCreated(r, note, paths, now) ==
    [AddLoop(r.rows, r.seq, paths, now) EXCEPT !.notes = <<note>> \o @]

CliAdd(paths, now) ==
    /\ backend = "cli" /\ nops < MaxCmds /\ Followed
    /\ DtLE(sop.now, now)
    /\ \E r \in {AddLoop(rows, seq, paths, now)} :
          /\ rows' = r.rows /\ seq' = r.seq
          /\ sop' = StoreCall("add", r.notes, <<>>, 0, now)
    /\ sres' = StoreOk(<<>>)
    /\ spre' = rows /\ nops' = nops + 1
    /\ UNCHANGED <<sm2vars, config, prompt, rres, reader, backend, files>>

\* ReviewStep that leaves next_datetime as it was fetched
ReviewStep_stale(note, quality, now) ==
    [kind |-> "Ok",
     note |-> [note EXCEPT !.scheduler =
                   update_repetition_interval(note.scheduler, Min(quality, 6))]]

\* the note with the scheduler next and the date r that unwrap gave
Reviewed(note, next, r) ==
    [kind |-> r.kind,
     note |-> [note EXCEPT !.next_datetime = r.dt, !.scheduler = next]]

\* SchedulingAlgorithm::update_and_calculate_next_datetime from the
\* scheduler as update_repetition_interval left it
Dated(note, next, now) ==
    Reviewed(note, next, unwrap(checked_add_days(now, next.interval)))

\* Review, lines 141-144: the note after input_quality and
\* update_and_calculate_next_datetime; kind is "Panic" when unwrap panics
ReviewStep(note, quality, now) ==
    Dated(note, update_repetition_interval(note.scheduler, Min(quality, 6)), now)

\* Review, lines 116-160: for each fetched note in order, ReviewStep and
\* repo.update; a panic ends the invocation with the earlier notes written.
\* ReviewWrite is the rest of an iteration after ReviewStep gave step.
RECURSIVE ReviewLoop(_, _, _, _)
RECURSIVE ReviewWrite(_, _, _, _, _)
ReviewLoop(table, notes, quals, now) ==
    IF notes = <<>> THEN [rows |-> table, notes |-> <<>>, kind |-> "Ok"]
    ELSE ReviewWrite(table, ReviewStep(Head(notes), Head(quals), now),
                     Tail(notes), Tail(quals), now)

ReviewWrite(table, step, notes, quals, now) ==
    IF \/ step.kind = "Panic"
       \/ sqlite_update(table, SerializedNote(step.note)).res.kind # "Ok"
    THEN [rows |-> table, notes |-> <<>>, kind |-> "Panic"]
    ELSE [ReviewLoop(sqlite_update(table, SerializedNote(step.note)).rows,
                     notes, quals, now)
            EXCEPT !.notes = <<step.note>> \o @]

\* Review, lines 105-160: every fetched note converted, then the loop
ReviewAll(table, fetched, quals, now) ==
    IF \E i \in DOMAIN fetched : from_value(fetched[i].scheduler).kind # "Ok"
    THEN [rows |-> table, notes |-> <<>>, kind |-> "Panic"]
    ELSE ReviewLoop(table, [i \in DOMAIN fetched |-> IntoNote(fetched[i])],
                    quals, now)

CliReview(num, quals, now) ==
    /\ backend = "cli" /\ nops < MaxCmds /\ Followed
    /\ DtLE(sop.now, now)
    /\ \E got \in sqlite_get_old_notes(rows, num) :
          /\ Len(got.notes) = Len(quals)
          /\ \E r \in {ReviewAll(rows, got.notes, quals, now)} :
                /\ rows' = r.rows
                /\ sop' = StoreCall("review", r.notes, <<>>, num, now)
                /\ sres' = [kind |-> r.kind, notes |-> got.notes]
    /\ spre' = rows /\ nops' = nops + 1
    /\ UNCHANGED <<sm2vars, config, prompt, rres, reader, backend, seq, files>>

\* Update, lines 80-100: the mutations the options ask for, made in turn on
\* the fetched note.  An Option is <<>> for None and <<v>> for Some(v); s is
\* [kind, note], kind "Panic" once a mutation has panicked.
WithQuality(note, quality, now) ==
    IF quality = <<>> THEN [kind |-> "Ok", note |-> note]
    ELSE ReviewStep(note, quality[1], now)

WithNext(s, next, now) ==
    IF next = <<>> \/ s.kind = "Panic" THEN s
    ELSE IF checked_add_days(now, next[1]).kind = "None"
    THEN [s EXCEPT !.kind = "Panic"]
    ELSE [s EXCEPT !.note.next_datetime = checked_add_days(now, next[1]).dt]

WithNewPath(s, new_path) ==
    IF new_path = <<>> THEN s ELSE [s EXCEPT !.note.absolute_path = new_path[1]]

WithReset(s, reset, now) ==
    IF reset THEN [s EXCEPT !.note.next_datetime = now, !.note.scheduler = Default]
    ELSE s

\* the options of an Update, kept with the command in sop
UpdateCall(notes, file, quality, next, new_path, reset, now) ==
    [name |-> "update", notes |-> notes, path |-> file, size |-> 0, now |-> now,
     quality |-> quality, next |-> next, new_path |-> new_path, reset |-> reset]

\* Update: find_by_path, the mutations, and the command ends there
CliUpdate(file, quality, next, new_path, reset, now) ==
    /\ backend = "cli" /\ Followed
    /\ DtLE(sop.now, now)
    /\ \E found \in {sqlite_find_by_path(rows, file)} :
          IF found.kind # "Ok" \/ from_value(found.notes[1].scheduler).kind # "Ok"
          THEN /\ sop' = UpdateCall(<<>>, file, quality, next, new_path, reset, now)
               /\ sres' = [kind |-> "Panic", notes |-> <<>>]
          ELSE \E s \in {WithReset(WithNewPath(WithNext(
                            WithQuality(IntoNote(found.notes[1]), quality, now),
                            next, now), new_path), reset, now)} :
                 /\ sop' = UpdateCall(IF s.kind = "Panic" THEN <<>> ELSE <<s.note>>,
                                      file, quality, next, new_path, reset, now)
                 /\ sres' = [kind |-> s.kind, notes |-> found.notes]
    /\ spre' = rows
    /\ UNCHANGED <<sm2vars, config, prompt, rres, reader, backend, rows, seq, files, nops>>

NextCli ==
    \/ \E paths \in AddArgs, now \in CliClock : CliAdd(paths, now)
    \/ \E num \in 1 .. 2, now \in CliClock :
          \E quals \in UNION {[1 .. k -> CliQualities] : k \in 0 .. num} :
              CliReview(num, quals, now)
    \/ \E file \in StorePaths, quality \in {<<>>} \cup {<<q>> : q \in CliQualities},
            next \in {<<>>, <<3>>, <<MaxDay>>}, new_path \in {<<>>, <<<<"c", ".", "m", "d">>>>},
            reset \in BOOLEAN, now \in CliClock :
          CliUpdate(file, quality, next, new_path, reset, now)

SpecCli == InitCli /\ [][NextCli]_vars

-----------------------------------------------------------------------------
(* A database that holds schedulers this program does not know: rows made  *)
(* through NoteRepository::create, which takes any serde_json::Value as    *)
(* the scheduler, and the commands of main.rs on that database.            *)

\* a JSON value is kept as a record whose type field is the string under
\* its "type" key, "" for a value without one: the value of another
\* algorithm, and null
ForeignValues ==
    {[type |-> "Leitner", counter |-> 0, interval |-> 0, easiness_factor |-> F64_2_5],
     [type |-> "", counter |-> 0, interval |-> 0, easiness_factor |-> F64_0_0]}

ForeignPaths == {<<"a", ".", "m", "d">>, <<"b", ".", "m", "d">>}

\* the SerializedNote values handed to create
ForeignItems ==
    {[id |-> 0, absolute_path |-> path, next_datetime |-> DateTime(20757, 0),
      scheduler |-> v] : path \in ForeignPaths, v \in ForeignValues}

\* NoteRepository::create of a SerializedNote
CreateItem(item) ==
    /\ backend = "cli" /\ nops < MaxCmds /\ Followed
    /\ \E r \in {sqlite_create(rows, seq, item)} :
          rows' = r.rows /\ seq' = r.seq /\ sres' = r.res
    /\ sop' = StoreCall("create", <<item>>, <<>>, 0, sop.now)
    /\ spre' = rows /\ nops' = nops + 1
    /\ UNCHANGED <<sm2vars, config, prompt, rres, reader, backend, files>>

\* find_by_path and TryInto<Note>, as a caller of the library makes them:
\* the Result is the caller's
FindAndDecode(path) ==
    /\ backend = "cli" /\ Followed
    /\ \E found \in {sqlite_find_by_path(rows, path)} :
          sres' = IF found.kind # "Ok" THEN found
                  ELSE IF from_value(found.notes[1].scheduler).kind # "Ok"
                  THEN StoreErr("FailedToDeserialize")
                  ELSE StoreOk(<<IntoNote(found.notes[1])>>)
    /\ sop' = StoreCall("find_by_path", <<>>, path, 0, sop.now)
    /\ spre' = rows
    /\ UNCHANGED <<sm2vars, config, prompt, rres, reader, backend, rows, seq, files, nops>>

NextForeign ==
    \/ \E item \in ForeignItems : CreateItem(item)
    \/ \E path \in ForeignPaths : FindAndDecode(path)
    \/ \E path \in ForeignPaths, now \in CliClock : CliAdd(<<path>>, now)
    \/ \E num \in 1 .. 2, now \in CliClock :
          \E quals \in UNION {[1 .. k -> {4}] : k \in 0 .. num} :
              CliReview(num, quals, now)
    \/ \E file \in ForeignPaths, quality \in {<<>>, <<4>>}, reset \in BOOLEAN,
            now \in CliClock :
          CliUpdate(file, quality, <<>>, <<>>, reset, now)

SpecForeign == InitCli /\ [][NextForeign]_vars

-----------------------------------------------------------------------------
(* main.rs: from a --file argument to the identity of the note.  A path is *)
(* here the sequence of its components; an argument is [abs, parts],       *)
(* absolute or relative to the current directory.                          *)

\* Config::root, the current directory, and the files that exist
Root == <<"root">>
Cwd == <<"root", "sub">>
FsFiles == {<<"root", "sub", "file">>, <<"root", "a.md">>, <<"other", "file">>}
FsEntries == UNION {{SubSeq(f, 1, k) : k \in 0 .. Len(f)} : f \in FsFiles}

PathArgs ==
    {[abs |-> TRUE, parts |-> <<"root", "sub", "file">>],
     [abs |-> TRUE, parts |-> <<"other", "file">>],
     [abs |-> TRUE, parts |-> <<"root", "nope">>],
     [abs |-> FALSE, parts |-> <<"file">>],
     [abs |-> FALSE, parts |-> <<"..", "a.md">>],
     [abs |-> FALSE, parts |-> <<"..", "..", "other", "file">>]}

\* PathBuf::canonicalize: the components are followed from the root of the
\* file system; ".." goes to the parent; a component that does not exist
\* fails the call
RECURSIVE canonicalize_from(_, _)
canonicalize_from(at, rest) ==
    IF at \notin FsEntries THEN [kind |-> "Err", path |-> <<>>]
    ELSE IF rest = <<>> THEN [kind |-> "Ok", path |-> at]
    ELSE IF Head(rest) = ".."
    THEN canonicalize_from(SubSeq(at, 1, Len(at) - 1), Tail(rest))
    ELSE canonicalize_from(Append(at, Head(rest)), Tail(rest))

\* canonicalize in the current directory cwd; the empty path names nothing
canonicalize_in(cwd, arg) ==
    IF ~arg.abs /\ arg.parts = <<>> THEN [kind |-> "Err", path |-> <<>>]
    ELSE canonicalize_from(IF arg.abs THEN <<>> ELSE cwd, arg.parts)

canonicalize(arg) == canonicalize_in(Cwd, arg)

\* validate_path: the path exists and is absolute
validate_path(path) ==
    IF path \in FsEntries THEN [kind |-> "Ok", path |-> path]
    ELSE [kind |-> "Err", path |-> <<>>]

\* get_validated_absolute_path: the canonical path, validated, as a String
get_validated_absolute_path(arg) ==
    IF canonicalize(arg).kind # "Ok" THEN canonicalize(arg)
    ELSE validate_path(canonicalize(arg).path)

\* Add of one file: an Err of get_validated_absolute_path is returned from
\* main before the repository is touched
PathAdd(arg, now) ==
    /\ get_validated_absolute_path(arg).kind = "Ok"
    /\ CliAdd(<<get_validated_absolute_path(arg).path>>, now)

PathAddErr(arg, now) ==
    /\ backend = "cli" /\ nops < MaxCmds /\ Followed
    /\ DtLE(sop.now, now)
    /\ get_validated_absolute_path(arg).kind # "Ok"
    /\ sop' = StoreCall("add", <<>>, arg.parts, 0, now)
    /\ sres' = StoreErr("Err")
    /\ spre' = rows /\ nops' = nops + 1
    /\ UNCHANGED <<sm2vars, config, prompt, rres, reader, backend, rows, seq, files>>

\* Update of a file, with --next: an Err of get_validated_absolute_path
\* panics, and find_by_path is given the validated path
PathUpdate(arg, now) ==
    IF get_validated_absolute_path(arg).kind = "Ok"
    THEN CliUpdate(get_validated_absolute_path(arg).path, <<>>, <<3>>, <<>>,
                   FALSE, now)
    ELSE /\ backend = "cli" /\ Followed
         /\ DtLE(sop.now, now)
         /\ sop' = UpdateCall(<<>>, arg.parts, <<>>, <<3>>, <<>>, FALSE, now)
         /\ sres' = [kind |-> "Panic", notes |-> <<>>]
         /\ spre' = rows
         /\ UNCHANGED <<sm2vars, config, prompt, rres, reader, backend, rows, seq, files, nops>>

NextPath ==
    \/ \E arg \in PathArgs, now \in CliClock : PathAdd(arg, now)
    \/ \E arg \in PathArgs, now \in CliClock : PathAddErr(arg, now)
    \/ \E arg \in PathArgs, now \in CliClock : PathUpdate(arg, now)

SpecPath == InitCli /\ [][NextPath]_vars

-----------------------------------------------------------------------------
(* config.rs: Config::try_new.  The directories from the root of the file  *)
(* system down to the current directory cwd are numbered by their depth,   *)
(* 0 .. Len(cwd); files[k + 1] is the .astronote.toml of the directory at  *)
(* depth k: [exists, root], root being <<>> or <<value>>, a value being a  *)
(* path [abs, parts].  A Figment is [root, by, tomls]: the value under     *)
(* the key root, the depth of the file that provided it (<<>> when it is   *)
(* the default), and the depths of the files read, in the order merged.    *)

ConfigCwds == {<<"root">>, <<"root", "sub">>}

ConfigFiles ==
    {[exists |-> FALSE, root |-> <<>>], [exists |-> TRUE, root |-> <<>>]}
        \cup {[exists |-> TRUE, root |-> <<v>>] :
                 v \in {[abs |-> TRUE, parts |-> <<"other">>],
                        [abs |-> FALSE, parts |-> <<"..">>],
                        [abs |-> FALSE, parts |-> <<"sub">>]}}

\* Figment::new().merge(Serialized::defaults(Config::default()))
DefaultFigment == [root |-> [abs |-> FALSE, parts |-> <<>>], by |-> <<>>, tomls |-> <<>>]

\* builder.merge(Toml::file(config_path)) for the directory at depth k; a
\* file that does not exist provides nothing and has no source
merge(builder, k, file) ==
    IF ~file.exists THEN builder
    ELSE [root |-> IF file.root # <<>> THEN file.root[1] ELSE builder.root,
          by |-> IF file.root # <<>> THEN <<k>> ELSE builder.by,
          tomls |-> Append(builder.tomls, k)]

\* merge_config_file for the directory at depth k: its parent first
RECURSIVE merge_config_file(_, _, _)
merge_config_file(builder, tomlfiles, k) ==
    IF k = 0 THEN merge(builder, 0, tomlfiles[1])
    ELSE merge(merge_config_file(builder, tomlfiles, k - 1), k, tomlfiles[k + 1])

\* source.to_string() less the file name, for the file at depth k: figment
\* displays a file relative to the current directory when that has fewer
\* components than the path itself
source_dir(k, cwd) ==
    IF Len(cwd) - k + 1 < k + 2
    THEN [abs |-> FALSE, parts |-> [i \in 1 .. (Len(cwd) - k) |-> ".."]]
    ELSE [abs |-> TRUE, parts |-> SubSeq(cwd, 1, k)]

\* canonicalize(), giving a path value
canonical_path(cwd, arg) ==
    [kind |-> canonicalize_in(cwd, arg).kind,
     path |-> [abs |-> TRUE, parts |-> canonicalize_in(cwd, arg).path]]

\* find_config_root: [kind, path]
find_config_root(builder, cwd) ==
    IF builder.by # <<>>
    THEN IF builder.root.abs THEN [kind |-> "Ok", path |-> builder.root]
         ELSE canonical_path(cwd,
                  [abs |-> source_dir(builder.by[1], cwd).abs,
                   parts |-> source_dir(builder.by[1], cwd).parts
                                \o builder.root.parts])
    ELSE IF builder.tomls # <<>>
    THEN [kind |-> "Ok",
          path |-> source_dir(builder.tomls[Len(builder.tomls)], cwd)]
    ELSE [kind |-> "Ok", path |-> [abs |-> TRUE, parts |-> cwd]]

\* find_config_root_absolute
find_config_root_absolute(builder, cwd) ==
    IF find_config_root(builder, cwd).kind # "Ok" THEN find_config_root(builder, cwd)
    ELSE canonical_path(cwd, find_config_root(builder, cwd).path)

InitConfig ==
    /\ sm2 = Default /\ origin = "default" /\ calls = 0 /\ seen = {}
    /\ op = NoCall /\ pre = sm2 /\ ret = NoRet /\ panicked = FALSE
    /\ backend = "none" /\ rows = {} /\ seq = 0 /\ files = {}
    /\ sop = NoStoreCall /\ sres = StoreOk(<<>>) /\ rres = StoreOk(<<>>)
    /\ spre = {} /\ nops = 0 /\ reader = NoReader /\ prompt = NoPrompt
    /\ \E cwd \in ConfigCwds : \E fs \in [1 .. Len(cwd) + 1 -> ConfigFiles] :
          config = [state |-> "start", cwd |-> cwd, files |-> fs,
                    builder |-> DefaultFigment,
                    root |-> [kind |-> "None", path |-> [abs |-> TRUE, parts |-> <<>>]]]

\* Config::try_new, line 30: build_config
BuildConfig ==
    /\ config.state = "start"
    /\ config' = [config EXCEPT
                     !.state = "built",
                     !.builder = merge_config_file(DefaultFigment, config.files,
                                                   Len(config.cwd))]
    /\ UNCHANGED <<sm2vars, storevars, reader, prompt>>

\* Config::try_new, line 34: config.root = find_config_root_absolute(..)?
FindConfigRoot ==
    /\ config.state = "built"
    /\ config' = [config EXCEPT
                     !.state = "done",
                     !.root = find_config_root_absolute(config.builder, config.cwd)]
    /\ UNCHANGED <<sm2vars, storevars, reader, prompt>>

NextConfig == BuildConfig \/ FindConfigRoot

SpecConfig == InitConfig /\ [][NextConfig]_vars

-----------------------------------------------------------------------------
(* astronote-cli: where a quality of answer comes from.  Update takes it    *)
(* from --quality through quality_validator; Review asks for it with        *)
(* input_quality, once per line read.  A text is a tuple of characters.     *)
(* prompt is [state, note, now, input, quality]: state "asking" while       *)
(* input_quality waits for a line, "returned" once it returned, "panicked"  *)
(* once the invocation panicked, "accepted" or "rejected" for the argument  *)
(* of an Update; input is the last text taken, quality the Option given to  *)
(* the scheduler.                                                           *)

\* the reviews followed with any digit, and with one digit kept
MaxAsked == 2

DigitChars == <<"0", "1", "2", "3", "4", "5", "6", "7", "8", "9">>
IsDigit(c) == \E i \in DOMAIN DigitChars : DigitChars[i] = c
\* char::to_digit(10) of a digit
to_digit(c) == (CHOOSE i \in DOMAIN DigitChars : DigitChars[i] = c) - 1

IsWhitespace(c) == c \in {" ", "\n"}

\* str::trim
RECURSIVE trim_start(_)
RECURSIVE trim_end(_)
trim_start(s) ==
    IF s # <<>> /\ IsWhitespace(Head(s)) THEN trim_start(Tail(s)) ELSE s
trim_end(s) ==
    IF s # <<>> /\ IsWhitespace(s[Len(s)])
    THEN trim_end(SubSeq(s, 1, Len(s) - 1)) ELSE s
trim(s) == trim_end(trim_start(s))

\* cli::read_line: what stdin.read_line put in buf, trimmed; buf is empty at
\* the end of input
read_line(buf) == trim(buf)

\* the value of a text of digits
RECURSIVE Decimal10(_)
Decimal10(s) ==
    IF s = <<>> THEN 0
    ELSE 10 * Decimal10(SubSeq(s, 1, Len(s) - 1)) + to_digit(s[Len(s)])

\* str::parse::<usize>: an optional '+', then digits and nothing else
parse_usize(s) ==
    LET digits == IF s # <<>> /\ Head(s) = "+" THEN Tail(s) ELSE s
    IN  IF digits # <<>> /\ \A i \in DOMAIN digits : IsDigit(digits[i])
        THEN [kind |-> "Ok", value |-> Decimal10(digits)]
        ELSE [kind |-> "Err", value |-> 0]

\* cli::quality_validator
quality_validator(num) ==
    IF parse_usize(num).kind = "Ok" /\ parse_usize(num).value \in 0 .. 6
    THEN parse_usize(num)
    ELSE [kind |-> "Err", value |-> 0]

\* the 'n' arm of input_quality: calculate_next_datetime(i) for i in 0..=6,
\* which panics when one of the dates cannot be held
PreviewAll(scheduler, now) ==
    IF \E i \in 0 .. 6 :
          checked_add_days(now, calculate_interval(scheduler.counter,
                                   scheduler.easiness_factor, i)).kind = "None"
    THEN "Panic" ELSE "Again"

\* input_quality on the line input: [kind, quality], kind "Return" with the
\* quality returned, "Again" when it calls itself to ask again, "Panic"
input_quality(note, input, now) ==
    IF input = <<>> THEN [kind |-> "Panic", quality |-> 0]
    ELSE IF Head(input) = "h" THEN [kind |-> "Again", quality |-> 0]
    ELSE IF Head(input) = "n"
    THEN [kind |-> PreviewAll(note.scheduler, now), quality |-> 0]
    ELSE IF Head(input) \in {"0", "1", "2", "3", "4", "5", "6"}
    THEN [kind |-> "Return", quality |-> to_digit(Head(input))]
    ELSE [kind |-> "Again", quality |-> 0]

\* what is typed at the prompt, as read_line finds it in buf: nothing at the
\* end of input, else a line
PromptLines ==
    {<<>>, <<"\n">>, <<" ", "\n">>, <<"h", "\n">>, <<"h", "i", "\n">>,
     <<"n", "\n">>, <<"x", "\n">>, <<"-", "1", "\n">>, <<"7", "\n">>,
     <<"9", "\n">>, <<"6", "5", "\n">>, <<"3", "x", "\n">>, <<" ", "4", " ", "\n">>}
        \cup {<<DigitChars[i], "\n">> : i \in 1 .. 7}

\* the values given to --quality
QualityArgs ==
    {<<>>, <<"+">>, <<"6", "x">>, <<" ", "6">>, <<"-", "1">>, <<"7">>,
     <<"1", "0">>, <<"0", "6">>, <<"+", "6">>, <<"6", ".", "0">>}
        \cup {<<DigitChars[i]>> : i \in 1 .. 7}

Asking(note, now, input) ==
    [state |-> "asking", note |-> note, now |-> now, input |-> input,
     quality |-> <<>>]

\* Review, lines 105-140: one note fetched, the editor run, input_quality
\* called
ReviewBegin(now) ==
    /\ backend = "cli" /\ Followed /\ prompt.state # "asking"
    /\ DtLE(sop.now, now)
    /\ \E got \in sqlite_get_old_notes(rows, 1) :
          /\ Len(got.notes) = 1
          /\ prompt' = Asking(IntoNote(got.notes[1]), now, <<>>)
          /\ sres' = got
    /\ sop' = StoreCall("review", <<>>, <<>>, 1, now)
    /\ spre' = rows
    /\ UNCHANGED <<sm2vars, config, rres, reader, backend, rows, seq, files, nops>>

\* input_quality reads a line and asks again, or panics
PromptLine(buf) ==
    /\ prompt.state = "asking"
    /\ \E r \in {input_quality(prompt.note, read_line(buf), prompt.now)} :
          /\ r.kind # "Return"
          /\ prompt' = [prompt EXCEPT
                           !.state = IF r.kind = "Panic" THEN "panicked" ELSE @,
                           !.input = read_line(buf)]
          /\ sres' = [sres EXCEPT !.kind = IF r.kind = "Panic" THEN "Panic" ELSE @]
    /\ UNCHANGED <<sm2vars, config, rres, reader, backend, rows, seq, files,
                   sop, spre, nops>>

\* input_quality reads a line and returns; Review, lines 141-160: the
\* scheduler updated with the quality and the note written
PromptReturn(buf) ==
    /\ prompt.state = "asking"
    /\ \E r \in {input_quality(prompt.note, read_line(buf), prompt.now)} :
          /\ r.kind = "Return"
          /\ calls < MaxAsked \/ (seen \subseteq {r.quality} /\ calls < MaxReviews)
          /\ seen' = (IF seen \subseteq {r.quality} THEN {r.quality} ELSE Responses)
          /\ \E w \in {ReviewWrite(rows, ReviewStep(prompt.note, r.quality, prompt.now),
                                   <<>>, <<>>, prompt.now)} :
                /\ rows' = w.rows
                /\ sop' = StoreCall("review", w.notes, <<>>, 1, prompt.now)
                /\ sres' = [sres EXCEPT !.kind = w.kind]
                /\ prompt' = [prompt EXCEPT
                                 !.state = IF w.kind = "Panic" THEN "panicked"
                                           ELSE "returned",
                                 !.input = read_line(buf),
                                 !.quality = <<r.quality>>]
    /\ calls' = calls + 1
    /\ UNCHANGED <<sm2, origin, op, pre, ret, panicked, config, rres, reader,
                   backend, seq, files, spre, nops>>

\* Update --file file --quality arg, refused by the value parser
UpdateRefused(file, arg, now) ==
    /\ backend = "cli" /\ Followed /\ prompt.state # "asking"
    /\ DtLE(sop.now, now)
    /\ quality_validator(arg).kind = "Err"
    /\ prompt' = [state |-> "rejected", note |-> <<>>, now |-> now,
                  input |-> arg, quality |-> <<>>]
    /\ UNCHANGED <<sm2vars, storevars, config, reader>>

\* Update --file file --quality arg, let through: find_by_path and the
\* scheduler updated with the quality
UpdateAccepted(file, arg, now) ==
    /\ backend = "cli" /\ Followed /\ prompt.state # "asking"
    /\ DtLE(sop.now, now)
    /\ \E v \in {quality_validator(arg)}, found \in {sqlite_find_by_path(rows, file)} :
          /\ v.kind = "Ok"
          /\ IF found.kind # "Ok"
             THEN /\ sop' = UpdateCall(<<>>, file, <<v.value>>, <<>>, <<>>, FALSE, now)
                  /\ sres' = [kind |-> "Panic", notes |-> <<>>]
             ELSE \E s \in {WithQuality(IntoNote(found.notes[1]), <<v.value>>, now)} :
                  /\ sop' = UpdateCall(IF s.kind = "Panic" THEN <<>> ELSE <<s.note>>,
                                       file, <<v.value>>, <<>>, <<>>, FALSE, now)
                  /\ sres' = [kind |-> s.kind, notes |-> found.notes]
          /\ prompt' = [state |-> "accepted", note |-> <<>>,
                        now |-> now, input |-> arg, quality |-> <<v.value>>]
    /\ spre' = rows
    /\ UNCHANGED <<sm2vars, config, rres, reader, backend, rows, seq, files, nops>>

\* Add of one file; the commands are run one after the other
PromptAdd(now) ==
    prompt.state # "asking" /\ CliAdd(<<<<"a", ".", "m", "d">>>>, now)

NextPrompt ==
    \/ \E now \in CliClock : PromptAdd(now)
    \/ \E now \in CliClock : ReviewBegin(now)
    \/ \E buf \in PromptLines : PromptLine(buf)
    \/ \E buf \in PromptLines : PromptReturn(buf)
    \/ \E arg \in QualityArgs, now \in CliClock :
          UpdateRefused(<<"a", ".", "m", "d">>, arg, now)
    \/ \E arg \in QualityArgs, now \in CliClock :
          UpdateAccepted(<<"a", ".", "m", "d">>, arg, now)

SpecPrompt == InitCli /\ [][NextPrompt]_vars

-----------------------------------------------------------------------------
(* db/ron.rs: LimitReader, as read_metadata drives it.  read_to_string    *)
(* calls read with buffers of its choosing until a call returns 0 bytes   *)
(* or fails.  reader is [state, size, pos, limit]: size is the length of  *)
(* the file, pos the bytes read from it so far, which are the bytes in    *)
(* the String.                                                            *)

\* LimitReader::new(file, 10 * 1024)
ReadLimit == 10 * 1024

\* the largest file read is this much longer than the limit
MaxExcess == 1

FileSizes == {0, 1, 32, 8192, ReadLimit - 1, ReadLimit, ReadLimit + MaxExcess}

\* buf.len() of the calls read_to_string makes: a probe, a small reserve,
\* and the default buffer size
BufLens == {1, 32, 8192}

InitRead ==
    /\ sm2 = Default /\ origin = "default" /\ calls = 0 /\ seen = {}
    /\ op = NoCall /\ pre = sm2 /\ ret = NoRet /\ panicked = FALSE
    /\ backend = "ron" /\ rows = {} /\ seq = 0 /\ files = {}
    /\ sop = NoStoreCall /\ sres = StoreOk(<<>>) /\ rres = StoreOk(<<>>)
    /\ spre = {} /\ nops = 0
    /\ reader \in {[state |-> "reading", size |-> n, pos |-> 0, limit |-> ReadLimit] :
                      n \in FileSizes}
    /\ config = NoConfig /\ prompt = NoPrompt

\* LimitReader::read refusing a buffer longer than the remaining limit;
\* read_to_string and read_metadata return the error
LimitReadRefuse(buflen) ==
    /\ reader.state = "reading"
    /\ buflen > reader.limit
    /\ reader' = [reader EXCEPT !.state = "failed"]
    /\ UNCHANGED <<sm2vars, config, prompt, storevars>>

\* LimitReader::read passing the call on: the file gives n bytes, at most
\* buflen and at most what is left of it, and 0 only at its end
LimitReadPass(buflen, n) ==
    /\ reader.state = "reading"
    /\ buflen <= reader.limit
    /\ n <= buflen /\ n <= reader.size - reader.pos
    /\ n = 0 <=> reader.pos = reader.size
    /\ reader' = [reader EXCEPT !.state = (IF n = 0 THEN "done" ELSE "reading"),
                                !.pos = @ + n, !.limit = @ - n]
    /\ UNCHANGED <<sm2vars, config, prompt, storevars>>

NextRead ==
    \/ \E buflen \in BufLens : LimitReadRefuse(buflen)
    \/ \E buflen \in BufLens :
          \E n \in {0, 1, Min(buflen, reader.size - reader.pos)} :
              LimitReadPass(buflen, n)

SpecRead == InitRead /\ [][NextRead]_vars

-----------------------------------------------------------------------------
(* The stores' claims, checked under SpecStore *)

\* the table or the directory of the store in use
Current == IF backend = "sqlite" THEN rows ELSE files

\* the identities stored in a table or directory
PathsIn(st) ==
    IF backend = "sqlite" THEN {r.absolute_path : r \in st}
    ELSE {f.data.absolute_path : f \in st}

Entry(item) ==
    [absolute_path |-> item.absolute_path, next_datetime |-> item.next_datetime,
     scheduler |-> item.scheduler]

\* identity, due date and scheduler state of the notes a table or directory
\* gives back
Contents(st) ==
    IF backend = "sqlite" THEN {Entry(r) : r \in st}
    ELSE {Entry(f.data) : f \in {g \in st : read_metadata(g).kind = "Ok"}}

\* C8: create of notes whose identity is already stored returns success and
\* leaves the stored set as it was, on both backends.
C8_CreateIdempotent ==
    (sop.name = "create"
        /\ \A i \in DOMAIN sop.notes : sop.notes[i].absolute_path \in PathsIn(spre))
    => (sres.kind = "Ok" /\ Current = spre)

\* a create of a stored identity with another due date than the stored one
C8_Witness ==
    /\ sop.name = "create" /\ Len(sop.notes) = 1
    /\ \E e \in Contents(spre) :
          /\ e.absolute_path = sop.notes[1].absolute_path
          /\ e.next_datetime # sop.notes[1].next_datetime
    /\ sres.kind = "Ok" /\ Current = spre

\* C9: update(n) returns success; it replaces the due date and scheduler
\* state of the stored note with n's identity and leaves the others as they
\* were; with no such note it leaves the store as it was.
C9_UpdateByIdentity ==
    (sop.name = "update" /\ Len(sop.notes) = 1) =>
        LET n == sop.notes[1]
        IN  /\ sres.kind = "Ok"
            /\ IF n.absolute_path \in PathsIn(spre)
               THEN Contents(Current)
                      = {e \in Contents(spre) : e.absolute_path # n.absolute_path}
                            \cup {Entry(SerializedNote(n))}
               ELSE Current = spre

\* C10: the due query issued at time T never returns a note due after T, and
\* returns every note due at or before T when the limit allows.
C10_DueOnly ==
    (sop.name \in {"get_old_notes", "get_all"} /\ sres.kind = "Ok") =>
        LET due == {e \in Contents(Current) : DtLE(e.next_datetime, sop.now)}
            got == {[absolute_path |-> sres.notes[i].absolute_path,
                     next_datetime |-> sres.notes[i].next_datetime] :
                        i \in DOMAIN sres.notes}
            key(E) == {[absolute_path |-> e.absolute_path,
                        next_datetime |-> e.next_datetime] : e \in E}
        IN  /\ got \subseteq key(due)
            /\ sop.size >= Cardinality(due) => got = key(due)

\* C11: the sequence get_old_notes(size) returns is sorted ascending by
\* next_datetime, has at most size elements, and no stored note that was
\* left out is due strictly earlier than a note that was returned.
C11_SortedPrefix ==
    (sop.name = "get_old_notes" /\ sres.kind = "Ok") =>
        /\ Len(sres.notes) <= sop.size
        /\ \A i, j \in DOMAIN sres.notes :
              i < j => DtLE(sres.notes[i].next_datetime, sres.notes[j].next_datetime)
        /\ \A r \in spre : \A i \in DOMAIN sres.notes :
              (\A k \in DOMAIN sres.notes : sres.notes[k] # r)
                  => DtLE(sres.notes[i].next_datetime, r.next_datetime)

\* C12: delete(n) of a note whose identity is not stored fails and leaves
\* the store as it was, on both backends.
C12_DeleteAbsent ==
    (sop.name = "delete" /\ Len(sop.notes) = 1
        /\ sop.notes[1].absolute_path \notin PathsIn(spre))
    => (sres.kind # "Ok" /\ Current = spre)

\* an update that would give a second row the identity of another row
WouldDuplicate ==
    /\ backend = "sqlite" /\ sop.name = "update"
    /\ \E r \in spre : r.id = sop.notes[1].id
    /\ \E r \in spre : r.id # sop.notes[1].id
                          /\ r.absolute_path = sop.notes[1].absolute_path

\* C13: no two stored notes have the same identity, and a create or update
\* that would store a second note under a stored identity leaves the store
\* as it was (create succeeds, update fails).
C13_OnePerIdentity ==
    /\ \A r1, r2 \in rows : r1.absolute_path = r2.absolute_path => r1 = r2
    /\ \A f1, f2 \in files : f1.data.absolute_path = f2.data.absolute_path => f1 = f2
    /\ (sop.name = "create" /\ Len(sop.notes) = 1
            /\ sop.notes[1].absolute_path \in PathsIn(spre)) => Current = spre
    /\ WouldDuplicate => (sres.kind # "Ok" /\ Current = spre)

\* an update that moves a stored note onto the identity of another stored
\* note, and is refused
C13_Witness ==
    /\ WouldDuplicate /\ sres.kind = "FailedToUpdateNote"
    /\ Cardinality(rows) = 2 /\ rows = spre

\* the kind of failure a result is
Outcome(res) ==
    CASE res.kind = "Ok" -> "Ok"
      [] res.kind \in {"FailedToFindNoteByPath", "FailedToFindNoteById",
                       "FailedToOpen", "FailedToFindMetadata"} -> "NotFound"
      [] res.kind \in {"FailedToParse", "FailedToDeserialize",
                       "FailedToReadMetadata"} -> "SerializationFailure"
      [] OTHER -> "StorageIOFailure"

\* C14: driven side by side from empty stores with the same operations and
\* notes, the two repositories return the same outcome for each operation
\* and afterwards hold the same notes with the same due dates and
\* scheduler states.
C14_SameContract ==
    backend = "both" =>
        /\ Outcome(sres) = Outcome(rres)
        /\ {Entry(r) : r \in rows}
              = {Entry(f.data) : f \in {g \in files : read_metadata(g).kind = "Ok"}}

\* the Note that reading the identity back from the store in use gives:
\* find_by_path and TryInto<Note>, or get_one
ReadBack(path) ==
    IF backend = "ron" THEN ron_get_one(files, path)
    ELSE IF sqlite_find_by_path(rows, path).kind # "Ok"
    THEN sqlite_find_by_path(rows, path)
    ELSE IF from_value(sqlite_find_by_path(rows, path).notes[1].scheduler).kind # "Ok"
    THEN StoreErr("FailedToDeserialize")
    ELSE StoreOk(<<IntoNote(sqlite_find_by_path(rows, path).notes[1])>>)

\* C15: converting a Note into a SerializedNote and back succeeds and gives
\* the same id, identity, due date, type and scheduler state; and a note a
\* create or update has written reads back from the store, on either
\* backend, as the same note.
C15_RoundTrip ==
    /\ \A n \in StoreNotes :
          /\ from_value(SerializedNote(n).scheduler).kind = "Ok"
          /\ SerializedNote(n).scheduler.type = "SuperMemo2"
          /\ IntoNote(SerializedNote(n)) = n
    /\ (sop.name \in {"create", "update"} /\ Len(sop.notes) = 1
            /\ sres.kind = "Ok" /\ Current # spre)
        => \E back \in {ReadBack(sop.notes[1].absolute_path)} :
              /\ back.kind = "Ok"
              /\ back.notes = <<sop.notes[1]>>

\* C16: after every review the next_datetime stored for the note is the
\* time of that review plus the stored interval in days, and it is stored
\* with the scheduler state of that same review; the notes a Review did
\* not write are as they were.
C16_DueFromScheduler ==
    backend = "cli" =>
        /\ \A r \in rows : \E t \in CliClock :
              r.next_datetime = DateTime(t.day + r.scheduler.interval, t.tod)
        /\ sop.name = "review" =>
              /\ \A i \in DOMAIN sop.notes : \E r \in rows :
                    /\ r.id = sop.notes[i].id
                    /\ r.scheduler = to_value(sop.notes[i].scheduler)
                    /\ r.next_datetime
                          = DateTime(sop.now.day + r.scheduler.interval, sop.now.tod)
              /\ \A r \in rows :
                    (\A i \in DOMAIN sop.notes : sop.notes[i].id # r.id) => r \in spre

\* a third review of a note, two days after its second, in a Review of two
\* notes
C16_Witness ==
    /\ backend = "cli" /\ sop.name = "review" /\ sres.kind = "Ok"
    /\ Len(sop.notes) = 2 /\ sop.now.day = 20760
    /\ \E r \in rows, o \in spre :
          /\ r.id = o.id /\ o.next_datetime.day = 20758 + 6
          /\ r.scheduler.counter = 3 /\ r.scheduler.interval > 6
          /\ r.next_datetime.day = 20760 + r.scheduler.interval

\* C17: after an Update that succeeded, find_by_path of the note returns
\* the due date and scheduler state the Update gave it.
C17_UpdateWritten ==
    (backend = "cli" /\ sop.name = "update" /\ sres.kind = "Ok") =>
        \E found \in {sqlite_find_by_path(rows, sop.notes[1].absolute_path)} :
            /\ found.kind = "Ok"
            /\ found.notes[1].next_datetime = sop.notes[1].next_datetime
            /\ found.notes[1].scheduler = to_value(sop.notes[1].scheduler)

\* C18: on the file backend, after update(n) succeeds for a stored identity,
\* get_one of the identity and get_all succeed and give back n, whatever
\* the metadata file held before.
C18_UpdateOverwrites ==
    (backend = "ron" /\ sop.name = "update" /\ Len(sop.notes) = 1
        /\ sres.kind = "Ok" /\ sop.notes[1].absolute_path \in PathsIn(spre))
    => LET n == sop.notes[1]
           one == ron_get_one(files, n.absolute_path)
       IN  /\ one.kind = "Ok" /\ one.notes = <<n>>
           /\ \A all \in ron_get_all(files) :
                 all.kind = "Ok" /\ \E i \in DOMAIN all.notes : all.notes[i] = n

\* C19: on the file backend the metadata file of a stored note b is not the
\* metadata file of a note a with another identity, so create, update and
\* delete of a leave b's file as it was, and create of a not yet stored
\* identity stores it.
C19_OneFilePerNote ==
    (backend = "ron" /\ sop.name \in {"create", "update", "delete"}
        /\ Len(sop.notes) = 1)
    => LET a == sop.notes[1]
       IN  /\ \A b \in spre :
                 b.data.absolute_path # a.absolute_path
                    => (b.meta # get_metadata_path_from_note(a) /\ b \in files)
           /\ (sop.name = "create" /\ a.absolute_path \notin PathsIn(spre))
                 => a.absolute_path \in PathsIn(files)

\* C20: read_metadata fails for every file longer than 10240 bytes, never
\* hands more than 10240 bytes to the parser, reads in full every file of
\* at most 10240 bytes whatever the buffer lengths, and the remaining
\* limit never goes below zero.
C20_ReadCap ==
    /\ reader.limit >= 0
    /\ reader.pos <= 10240
    /\ reader.state = "done" => (reader.size <= 10240 /\ reader.pos = reader.size)
    /\ reader.state = "failed" => reader.size > 10240

-----------------------------------------------------------------------------
(* Further claims on the scheduler, checked under Spec *)

\* C21: a response above 6 is clamped: advance with any response
\* r > 6 commits the state advance(6) commits, and advance with any response
\* from 5 to 255 commits the counter, interval and easiness factor that
\* advance(5) commits.
C21_Clamped ==
    /\ (Advanced /\ op.q > 6) => sm2 = update_repetition_interval(pre, 6)
    /\ (Advanced /\ op.q >= 5) => sm2 = update_repetition_interval(pre, 5)

\* a response of 255 on a third or later repetition, which raised the
\* easiness factor by the 0.1 of a response of 5
C21_Witness ==
    /\ Advanced /\ op.q = 255 /\ pre.counter >= 2
    /\ sm2.counter = pre.counter + 1
    /\ sm2.easiness_factor = F64Add(pre.easiness_factor, EfDelta(5))
    /\ sm2.interval = CeilMul(pre.interval, sm2.easiness_factor)

\* C22: the datetime advance returns is now plus the interval, in days,
\* that this call committed, at the time of day of now.
C22_DueIsNowPlusInterval ==
    (Advanced /\ ret.kind = "Ok") =>
        ret.dt = DateTime(op.now.day + sm2.interval, op.now.tod)

\* an advance away from midnight that committed a new interval
C22_Witness ==
    /\ Advanced /\ ret.kind = "Ok" /\ op.now.tod # 0
    /\ sm2.interval > 6 /\ sm2.interval # pre.interval
    /\ ret.dt = DateTime(op.now.day + sm2.interval, op.now.tod)

\* the last operation was an advance that lapsed
Lapsed == Advanced /\ Quality < 3 /\ pre.counter + 1 >= 3

\* C30: a lapse (an advance with quality below 3 at working counter 3 or
\* more) leaves the easiness factor as it was and commits counter 1, and
\* the advance that follows it commits interval 6 and counter 2 whatever
\* its quality.
C30_LapseRestarts ==
    [][Lapsed =>
          /\ sm2.counter = 1
          /\ sm2.easiness_factor = pre.easiness_factor
          /\ calls' = calls + 1 => (sm2'.interval = 6 /\ sm2'.counter = 2)]_vars

\* the advance after a lapse: from the default state only a lapse leaves
\* counter 1 with an easiness factor other than 2.5
C30_Witness ==
    /\ origin = "default" /\ Advanced /\ Quality < 3
    /\ pre.counter = 1 /\ pre.interval = 1 /\ pre.easiness_factor # F64_2_5
    /\ sm2.counter = 2 /\ sm2.interval = 6

\* C31: in every state reached from the default state by advance calls with
\* any responses, counter >= 0 and interval >= 0; after at least one advance
\* counter >= 1 and interval >= 1; a lapse makes update_repetition_interval
\* (and calculate_interval) call itself exactly once; and no call selects
\* an unreachable!() arm.
C31_CounterAndArms ==
    origin = "default" =>
        /\ sm2.counter >= 0 /\ sm2.interval >= 0
        /\ calls >= 1 => (sm2.counter >= 1 /\ sm2.interval >= 1)
        /\ Advanced =>
              /\ "unreachable" \notin Arms(pre.counter, Quality)
              /\ Depth(pre.counter, Quality) = (IF Lapsed THEN 1 ELSE 0)
        /\ \A q \in 0 .. 6 :
              /\ "unreachable" \notin Arms(sm2.counter, q)
              /\ Depth(sm2.counter, q) <= 1

\* a lapse after a long interval: one call inside the call
C31_Witness ==
    /\ origin = "default" /\ Lapsed /\ pre.interval > 6
    /\ Depth(pre.counter, Quality) = 1
    /\ Arms(pre.counter, Quality) = {"later", "first"}
    /\ sm2.counter = 1 /\ sm2.interval = 1

\* C32: from the default state, every advance with quality 3 or more
\* commits an interval greater than the one committed before it, so the
\* interval is strictly increasing along a run of such calls: 1, then 6,
\* then ceil(interval * ef') with ef' >= 1.3; and the interval decreases
\* only in a call that is a lapse.
C32_IntervalGrows ==
    (origin = "default" /\ Advanced) =>
        /\ Quality >= 3 => sm2.interval > pre.interval
        /\ (Quality >= 3 /\ pre.counter = 0) => sm2.interval = 1
        /\ (Quality >= 3 /\ pre.counter = 1) => sm2.interval = 6
        /\ (Quality >= 3 /\ pre.counter >= 2) =>
              /\ F64LE(F64_1_3, sm2.easiness_factor)
              /\ sm2.interval = CeilMul(pre.interval, sm2.easiness_factor)
        /\ sm2.interval < pre.interval => Lapsed

\* far into a run of responses of 3, with the easiness factor at its floor
C32_Witness ==
    /\ origin = "default" /\ Advanced /\ seen = {3} /\ calls >= 12
    /\ pre.easiness_factor = F64_1_3 /\ sm2.easiness_factor = F64_1_3
    /\ sm2.interval > pre.interval

-----------------------------------------------------------------------------
(* Further claims on the stores, checked under SpecStore *)

\* C25: find_by_path and get_one fail with a not-found error and return no
\* note for every identity that is not stored; for a stored identity they
\* return the note stored under it, which is the note a create or update
\* last wrote for that identity.
C25_FindByIdentity ==
    /\ sop.name \in {"find_by_path", "get_one"} =>
          IF sop.path \in PathsIn(Current)
          THEN /\ sres.kind = "Ok"
               /\ sres.notes[1].absolute_path = sop.path
               /\ \E e \in Contents(Current) :
                     /\ e.absolute_path = sop.path
                     /\ e.next_datetime = sres.notes[1].next_datetime
                     /\ e.scheduler.counter = sres.notes[1].scheduler.counter
                     /\ e.scheduler.interval = sres.notes[1].scheduler.interval
                     /\ e.scheduler.easiness_factor
                           = sres.notes[1].scheduler.easiness_factor
          ELSE Outcome(sres) = "NotFound" /\ sres.notes = <<>>
    /\ (sop.name \in {"create", "update"} /\ Len(sop.notes) = 1
            /\ sres.kind = "Ok" /\ Current # spre)
        => \E back \in {ReadBack(sop.notes[1].absolute_path)} :
              /\ back.kind = "Ok"
              /\ Entry(back.notes[1]) = Entry(sop.notes[1])

-----------------------------------------------------------------------------
(* Further claims on the commands, checked under SpecCli.  In the state    *)
(* after an Update, sop.notes[1] is the note as the command left it and    *)
(* sres.notes[1] the row it fetched.                                       *)

UpdateDone == backend = "cli" /\ sop.name = "update" /\ sres.kind = "Ok"

\* the row of the note an Update worked on, as find_by_id gives it after
\* the command
StoredAfter == sqlite_find_by_id(rows, sop.notes[1].id)

\* C23: an Update with reset leaves the note with the default scheduler
\* (counter 0, interval 0, easiness factor 2.5) and next_datetime = now,
\* whatever the state before and whatever quality and next were given with
\* it, and the advance that follows the reset commits interval 1 for every
\* quality.
C23_Reset ==
    (UpdateDone /\ sop.reset) =>
        /\ sop.notes[1].scheduler = SuperMemo2(0, 0, F64_2_5)
        /\ sop.notes[1].next_datetime = sop.now
        /\ StoredAfter.kind = "Ok"
        /\ StoredAfter.notes[1].scheduler = to_value(SuperMemo2(0, 0, F64_2_5))
        /\ StoredAfter.notes[1].next_datetime = sop.now
        /\ \A q \in 0 .. 6 :
              ReviewStep(IntoNote(StoredAfter.notes[1]), q, sop.now)
                  .note.scheduler.interval = 1

\* C24: an Update with next and neither quality nor reset sets
\* next_datetime = now + next days and leaves the scheduler, the id and,
\* when no new path is given, the path of the note as they were.
C24_ForceNext ==
    (UpdateDone /\ sop.next # <<>> /\ sop.quality = <<>> /\ ~sop.reset) =>
        /\ sop.notes[1].next_datetime
              = DateTime(sop.now.day + sop.next[1], sop.now.tod)
        /\ to_value(sop.notes[1].scheduler) = sres.notes[1].scheduler
        /\ sop.notes[1].id = sres.notes[1].id
        /\ sop.new_path = <<>>
              => sop.notes[1].absolute_path = sres.notes[1].absolute_path
        /\ StoredAfter.kind = "Ok"
        /\ StoredAfter.notes[1].next_datetime
              = DateTime(sop.now.day + sop.next[1], sop.now.tod)
        /\ StoredAfter.notes[1].scheduler = sres.notes[1].scheduler

\* C28: a note made by Note::new_default has next_datetime = now and the
\* default state counter 0, interval 0, easiness factor 2.5, and so has
\* the row an Add stores for it: the note is due as soon as it is added.
C28_NewIsDue ==
    (backend = "cli" /\ sop.name = "add") =>
        /\ \A i \in DOMAIN sop.notes :
              /\ sop.notes[i].next_datetime = sop.now
              /\ sop.notes[i].scheduler = SuperMemo2(0, 0, F64_2_5)
        /\ \A r \in rows \ spre :
              /\ r.next_datetime = sop.now
              /\ DtLE(r.next_datetime, sop.now)
              /\ r.scheduler = to_value(SuperMemo2(0, 0, F64_2_5))
              /\ \E i \in DOMAIN sop.notes :
                    sop.notes[i].absolute_path = r.absolute_path

\* an Add of two files, two days after the first notes were added, that
\* stored a note
C28_Witness ==
    /\ backend = "cli" /\ sop.name = "add" /\ Len(sop.notes) = 2
    /\ sop.now.day = 20760 /\ spre # {}
    /\ \E r \in rows \ spre : r.next_datetime = sop.now /\ r.scheduler.counter = 0

-----------------------------------------------------------------------------
(* Claims on unknown schedulers, checked under SpecForeign *)

\* the last command fetched a row whose scheduler does not decode
FetchedForeign ==
    \/ /\ sop.name = "review"
       /\ \E i \in DOMAIN sres.notes : from_value(sres.notes[i].scheduler).kind # "Ok"
    \/ /\ sop.name \in {"update", "find_by_path"}
       /\ \E r \in rows : /\ r.absolute_path = sop.path
                           /\ from_value(r.scheduler).kind # "Ok"

\* C26: decoding a stored scheduler value whose type names no known
\* algorithm, or that has no type, gives a failure as a value to the
\* caller: no Note comes of it and the process is not aborted.
C26_UnknownScheduler ==
    /\ \A v \in ForeignValues : from_value(v).kind = "Err"
    /\ FetchedForeign =>
          /\ sres.kind \notin {"Ok", "Panic"}
          /\ sop.name = "find_by_path" => sres.notes = <<>>
          /\ rows = spre

-----------------------------------------------------------------------------
(* Claims on paths, checked under SpecPath *)

\* the identities the last command gave to the repository: those of the
\* notes an Add created, the one an Update looked up
Identities ==
    IF sop.name = "add" THEN {sop.notes[i].absolute_path : i \in DOMAIN sop.notes}
    ELSE IF sop.name = "update" /\ sres.kind # "Panic" THEN {sop.path}
    ELSE {}

\* C27: the identity under which a note is stored or looked up is the path,
\* relative to the configured root, of an existing file under the root; a
\* path that leads outside the root is rejected and does not reach the
\* store.
C27_Confined ==
    /\ \A id \in Identities : Root \o id \in FsFiles
    /\ \A r \in rows : Root \o r.absolute_path \in FsFiles

-----------------------------------------------------------------------------
(* Claim on the quality of answer, checked under SpecPrompt *)

\* the last command is a Review at the prompt, or ended there, with no
\* quality returned
AtPrompt ==
    /\ sop.name = "review"
    /\ prompt.state \in {"asking", "panicked"} /\ prompt.quality = <<>>

\* the last text taken does not begin with a digit 0 .. 6
NotAQuality ==
    prompt.input = <<>> \/ Head(prompt.input) \notin {"0", "1", "2", "3", "4", "5", "6"}

\* a quality given to the scheduler is in 0 .. 6: by Update it is the
\* number --quality holds, by Review the first digit of the line
QualityInDomain ==
    /\ prompt.state = "accepted" =>
          /\ prompt.quality = <<Decimal10(SelectSeq(prompt.input, IsDigit))>>
          /\ prompt.quality[1] \in 0 .. 6 /\ sop.quality = prompt.quality
    /\ prompt.state = "rejected" =>
          \/ prompt.input = <<>>
          \/ \E i \in DOMAIN prompt.input :
                ~IsDigit(prompt.input[i]) /\ ~(i = 1 /\ prompt.input[i] = "+")
          \/ SelectSeq(prompt.input, IsDigit) = <<>>
          \/ Decimal10(SelectSeq(prompt.input, IsDigit)) > 6
    /\ (prompt.state \in {"returned", "panicked"} /\ prompt.quality # <<>>) =>
          /\ ~NotAQuality
          /\ prompt.quality = <<to_digit(Head(prompt.input))>>
          /\ prompt.quality[1] \in 0 .. 6

\* until a quality is returned the note is as it was fetched and the table
\* as it was found
PromptLeavesStore ==
    AtPrompt =>
        /\ rows = spre
        /\ SerializedNote(prompt.note) = sres.notes[1]

\* a line that is not a quality is followed by the prompt again
AsksAgain == (AtPrompt /\ NotAQuality) => prompt.state = "asking"

\* C33: every quality the commands give to the scheduler is in 0 .. 6:
\* Update takes --quality only when quality_validator lets it through, and
\* input_quality returns only on a line whose first character is a digit
\* 0 .. 6; on help, preview and invalid input it asks again, the note and
\* the store unchanged.
C33_QualityDomain == QualityInDomain /\ PromptLeavesStore /\ AsksAgain

-----------------------------------------------------------------------------
(* Claim on the configuration, checked under SpecConfig *)

\* the depths of the config files that exist, and of those that set root
Existing == {k \in 0 .. Len(config.cwd) : config.files[k + 1].exists}
Setting == {k \in Existing : config.files[k + 1].root # <<>>}
Nearest(S) == CHOOSE k \in S : \A j \in S : j <= k

\* the directory the root should be: the value of root in the nearest file
\* that sets it, a relative value taken from the directory of that file;
\* else the directory of the nearest config file; else the current
\* directory
ExpectedRoot ==
    IF Setting # {}
    THEN IF config.files[Nearest(Setting) + 1].root[1].abs
         THEN [kind |-> "Ok", path |-> config.files[Nearest(Setting) + 1].root[1].parts]
         ELSE canonicalize_from(SubSeq(config.cwd, 1, Nearest(Setting)),
                                config.files[Nearest(Setting) + 1].root[1].parts)
    ELSE IF Existing # {}
    THEN [kind |-> "Ok", path |-> SubSeq(config.cwd, 1, Nearest(Existing))]
    ELSE [kind |-> "Ok", path |-> config.cwd]

\* C29: if a config file sets root, the root is that value, a relative
\* value resolved against the directory of the file that set it; otherwise
\* it is the directory of the config file nearest to the current
\* directory; with no config file it is the current directory.
C29_RootResolution ==
    (config.state = "done" /\ ExpectedRoot.kind = "Ok") =>
        /\ config.root.kind = "Ok"
        /\ config.root.path = [abs |-> TRUE, parts |-> ExpectedRoot.path]

====
